---- MODULE Spec2Model ----
(***************************************************************************)
(* Model of nacos-mcp-go: the tool scanner (scanner/scanner.go), the tool  *)
(* list of the server (mcp.go) and the reflective invocation engine        *)
(* (handler/http.go).                                                      *)
(*                                                                         *)
(* Go strings are sequences of one-character strings, so that Split,       *)
(* Contains, HasPrefix, TrimSpace, ToLower and EqualFold are computed the  *)
(* way the strings package computes them.  JSON numbers (float64) are      *)
(* counted in halves: the field n2 of a number holds twice its value, so   *)
(* 5 is n2 = 10 and 5.5 is n2 = 11.                                        *)
(***************************************************************************)
EXTENDS Integers, Sequences, FiniteSets, TLC

(***************************************************************************)
(* Bounds of the model.                                                    *)
(***************************************************************************)
\* longest tool list explored
MaxTools == 2

(***************************************************************************)
(* package strings / fmt, as far as the sources use them.                  *)
(***************************************************************************)
UpperChars == <<"A", "B", "C", "D", "E", "F", "G", "H", "I", "J", "K", "L", "M", "N", "O", "P", "Q", "R", "S", "T", "U", "V", "W", "X", "Y", "Z">>

LowerChars == <<"a", "b", "c", "d", "e", "f", "g", "h", "i", "j", "k", "l", "m", "n", "o", "p", "q", "r", "s", "t", "u", "v", "w", "x", "y", "z">>

DigitChars == <<"0", "1", "2", "3", "4", "5", "6", "7", "8", "9">>

sParam == <<"p", "a", "r", "a", "m">>

sTool == <<"t", "o", "o", "l">>

sNameEq == <<"n", "a", "m", "e", "=">>

sDescriptionEq == <<"d", "e", "s", "c", "r", "i", "p", "t", "i", "o", "n", "=">>

sParamNamesEq == <<"p", "a", "r", "a", "m", "N", "a", "m", "e", "s", "=">>

sDescEq == <<"d", "e", "s", "c", "=">>

sRequired == <<"r", "e", "q", "u", "i", "r", "e", "d">>

sDash == <<"-">>

dString == <<"S", "t", "r", "i", "n", "g", " ", "p", "a", "r", "a", "m", "e", "t", "e", "r">>

dInteger == <<"I", "n", "t", "e", "g", "e", "r", " ", "p", "a", "r", "a", "m", "e", "t", "e", "r">>

dNumber == <<"N", "u", "m", "b", "e", "r", " ", "p", "a", "r", "a", "m", "e", "t", "e", "r">>

dBoolean == <<"B", "o", "o", "l", "e", "a", "n", " ", "p", "a", "r", "a", "m", "e", "t", "e", "r">>

dArray == <<"A", "r", "r", "a", "y", " ", "p", "a", "r", "a", "m", "e", "t", "e", "r">>

dComplex == <<"C", "o", "m", "p", "l", "e", "x", " ", "p", "a", "r", "a", "m", "e", "t", "e", "r">>

sAutoTool == <<"A", "u", "t", "o", "-", "g", "e", "n", "e", "r", "a", "t", "e", "d", " ", "t", "o", "o", "l", " ", "f", "o", "r", " ">>

sAutoMethod == <<"A", "u", "t", "o", "-", "g", "e", "n", "e", "r", "a", "t", "e", "d", " ", "t", "o", "o", "l", " ", "f", "o", "r", " ", "m", "e", "t", "h", "o", "d", " ">>

sFuncOpen == <<"f", "u", "n", "c", "(">>

sTrue == <<"t", "r", "u", "e">>

sFalse == <<"f", "a", "l", "s", "e">>

sMapOpen == <<"m", "a", "p", "[">>

sPkgDot == <<"m", "a", "i", "n", ".">>

sChanInt == <<"c", "h", "a", "n", " ", "i", "n", "t">>

\* unicode.ToLower on one ASCII character
LowerChar(c) ==
  IF \E i \in 1..26 : UpperChars[i] = c
  THEN LowerChars[CHOOSE i \in 1..26 : UpperChars[i] = c]
  ELSE c

\* strings.ToLower
ToLower(s) == [i \in 1..Len(s) |-> LowerChar(s[i])]

\* strings.EqualFold (ASCII: equal after case folding)
EqualFold(a, b) == ToLower(a) = ToLower(b)

\* strings.HasPrefix
HasPrefix(s, p) == Len(s) >= Len(p) /\ SubSeq(s, 1, Len(p)) = p

\* strings.TrimPrefix
TrimPrefix(s, p) == IF HasPrefix(s, p) THEN SubSeq(s, Len(p) + 1, Len(s)) ELSE s

\* strings.Contains
Contains(s, sub) ==
  \E i \in 1..(Len(s) - Len(sub) + 1) : SubSeq(s, i, i + Len(sub) - 1) = sub

\* strings.Split(s, sep) for a one-character separator: n separators give
\* n+1 parts, and the empty string gives one empty part
RECURSIVE Split(_, _)
Split(s, sep) ==
  IF \E i \in 1..Len(s) : s[i] = sep
  THEN LET k == CHOOSE i \in 1..Len(s) : s[i] = sep /\ \A j \in 1..(i - 1) : s[j] # sep
       IN  <<SubSeq(s, 1, k - 1)>> \o Split(SubSeq(s, k + 1, Len(s)), sep)
  ELSE <<s>>

\* strings.TrimSpace (the only white space in the model is the blank)
RECURSIVE TrimSpace(_)
TrimSpace(s) ==
  IF Len(s) = 0 THEN s
  ELSE IF s[1] = " " THEN TrimSpace(Tail(s))
  ELSE IF s[Len(s)] = " " THEN TrimSpace(SubSeq(s, 1, Len(s) - 1))
  ELSE s

\* strconv.Itoa, the %d verb of fmt.Sprintf
RECURSIVE Itoa(_)
Itoa(n) ==
  IF n < 0 THEN <<"-">> \o Itoa(0 - n)
  ELSE IF n < 10 THEN <<DigitChars[n + 1]>>
  ELSE Itoa(n \div 10) \o <<DigitChars[(n % 10) + 1]>>

\* fmt.Sprintf("param%d", n)
ParamN(n) == sParam \o Itoa(n)

\* m[k] = v on a Go map: adds the key or overwrites it
MapPut(m, k, v) == [x \in (DOMAIN m) \cup {k} |-> IF x = k THEN v ELSE m[x]]

\* make(map[string]interface{})
EmptyMap == [x \in {} |-> 0]

(***************************************************************************)
(* The strings of the application: type names, argument keys and values,   *)
(* member names and mcp tags (the README's MyMCPService, shortened).       *)
(***************************************************************************)
sString == <<"s", "t", "r", "i", "n", "g">>

sInt == <<"i", "n", "t">>

sFloat64 == <<"f", "l", "o", "a", "t", "6", "4">>

sBool == <<"b", "o", "o", "l">>

kKeyword == <<"k", "e", "y", "w", "o", "r", "d">>

kLimit == <<"l", "i", "m", "i", "t">>

kParam1 == <<"p", "a", "r", "a", "m", "1">>

kParam2 == <<"p", "a", "r", "a", "m", "2">>

kParam1Cap == <<"P", "a", "r", "a", "m", "1">>

kParam1Up == <<"P", "A", "R", "A", "M", "1">>

kMessage == <<"m", "e", "s", "s", "a", "g", "e">>

kNote == <<"N", "o", "t", "e">>

kSecret == <<"S", "e", "c", "r", "e", "t">>

kHid == <<"h", "i", "d">>

vA == <<"a">>

vAnn == <<"a", "n", "n">>

vHi == <<"h", "i">>

vX == <<"x">>

vY == <<"y">>

nGetTime == <<"G", "e", "t", "T", "i", "m", "e">>

nSearch == <<"S", "e", "a", "r", "c", "h">>

nEcho == <<"E", "c", "h", "o">>

nPing == <<"P", "i", "n", "g">>

nBox == <<"B", "o", "x">>

nRaw == <<"R", "a", "w">>

nTri == <<"T", "r", "i">>

nCount == <<"C", "o", "u", "n", "t">>

nStat == <<"S", "t", "a", "t">>

nHook == <<"H", "o", "o", "k">>

nFind == <<"F", "i", "n", "d">>

nNow == <<"N", "o", "w">>

nSet == <<"S", "e", "t">>

nGetCurrentTime == <<"G", "e", "t", "C", "u", "r", "r", "e", "n", "t", "T", "i", "m", "e">>

tagTime == <<"t", "o", "o", "l", ";", "n", "a", "m", "e", "=", "t", "i", "m", "e", ";", "d", "e", "s", "c", "r", "i", "p", "t", "i", "o", "n", "=", "n", "o", "w">>

tagSearch == <<"t", "o", "o", "l", ";", "n", "a", "m", "e", "=", "s", "e", "a", "r", "c", "h", ";", "p", "a", "r", "a", "m", "N", "a", "m", "e", "s", "=", "k", "e", "y", "w", "o", "r", "d", ",", "l", "i", "m", "i", "t">>

tagEcho == <<"t", "o", "o", "l", ";", "n", "a", "m", "e", "=", "e", "c", "h", "o", ";", "p", "a", "r", "a", "m", "N", "a", "m", "e", "s", "=", "m", "e", "s", "s", "a", "g", "e">>

tagTool == <<"t", "o", "o", "l">>

tagBox == <<"n", "a", "m", "e", "=", "t", "o", "o", "l", "b", "o", "x">>

tagTri == <<"t", "o", "o", "l", ";", "p", "a", "r", "a", "m", "N", "a", "m", "e", "s", "=", " ", "a", ",">>

tagHook == <<"n", "a", "m", "e", "=", "t", "b">>

(***************************************************************************)
(* reflect.Type.  A struct type is named and looked up in StructDefs; a    *)
(* field carries its name and the values of its json and mcp tag keys.     *)
(***************************************************************************)
TString == [kind |-> "string"]

TInt == [kind |-> "int"]

TFloat64 == [kind |-> "float64"]

TBool == [kind |-> "bool"]

\* the predeclared interface type error
TError == [kind |-> "error"]

TChan == [kind |-> "chan"]

TSlice(e) == [kind |-> "slice", elem |-> e]

TPtr(e) == [kind |-> "ptr", elem |-> e]

\* [n]e, the fixed-size array type
TArray(e, n) == [kind |-> "array", elem |-> e, len |-> n]

TStruct(n) == [kind |-> "struct", name |-> n]

TFunc(in, out) == [kind |-> "func", in |-> in, out |-> out]

\* the struct types of the application.  Req is the README's
\* SearchUserRequest with an untagged and an unexported field added; the
\* others are service structs: func-typed fields hold a callable (ref names
\* it, isNil tells a nil func), methods are listed in name order with their
\* receiver kind and their parameters without the receiver.
StructDefs ==
  [ Req |-> [ str |-> <<"R", "e", "q">>,
              fields |-> << [ Name |-> <<"K", "e", "y", "w", "o", "r", "d">>,
                              json |-> kKeyword,
                              mcp  |-> <<"d", "e", "s", "c", "=", "k", "w", ",", "r", "e", "q", "u", "i", "r", "e", "d">>,
                              Type |-> TString ],
                            [ Name |-> <<"L", "i", "m", "i", "t">>,
                              json |-> kLimit,
                              mcp  |-> <<"d", "e", "s", "c", "=", "n">>,
                              Type |-> TInt ],
                            [ Name |-> kNote,
                              json |-> <<>>,
                              mcp  |-> <<>>,
                              Type |-> TString ],
                            [ Name |-> kHid,
                              json |-> kHid,
                              mcp  |-> <<>>,
                              Type |-> TBool ],
                            [ Name |-> kSecret,
                              json |-> sDash,
                              mcp  |-> <<>>,
                              Type |-> TString ] >>,
              methods |-> <<>> ],
    MySvc |-> [ str |-> <<"M", "y", "S", "v", "c">>,
                fields |-> << [ Name |-> nGetTime, json |-> <<>>, mcp |-> tagTime,
                                Type |-> TFunc(<<>>, <<TString>>),
                                ref |-> "MySvc.GetTime", isNil |-> FALSE ],
                              [ Name |-> nSearch, json |-> <<>>, mcp |-> tagSearch,
                                Type |-> TFunc(<<TString, TInt>>, <<TSlice(TString)>>),
                                ref |-> "MySvc.Search", isNil |-> FALSE ],
                              [ Name |-> nEcho, json |-> <<>>, mcp |-> tagEcho,
                                Type |-> TFunc(<<TString>>, <<TString>>),
                                ref |-> "MySvc.Echo", isNil |-> FALSE ] >>,
                methods |-> <<>> ],
    MixSvc |-> [ str |-> <<"M", "i", "x", "S", "v", "c">>,
                 fields |-> << [ Name |-> nPing, json |-> <<>>, mcp |-> tagTool,
                                 Type |-> TFunc(<<>>, <<TString>>),
                                 ref |-> "MixSvc.Ping", isNil |-> FALSE ],
                               [ Name |-> nBox, json |-> <<>>, mcp |-> tagBox,
                                 Type |-> TFunc(<<TString>>, <<TString>>),
                                 ref |-> "MixSvc.Box", isNil |-> FALSE ],
                               [ Name |-> nRaw, json |-> <<>>, mcp |-> <<>>,
                                 Type |-> TFunc(<<TInt>>, <<TInt>>),
                                 ref |-> "MixSvc.Raw", isNil |-> FALSE ],
                               [ Name |-> nTri, json |-> <<>>, mcp |-> tagTri,
                                 Type |-> TFunc(<<TString, TInt, TBool>>, <<>>),
                                 ref |-> "MixSvc.Tri", isNil |-> FALSE ],
                               [ Name |-> nCount, json |-> <<>>, mcp |-> tagTool,
                                 Type |-> TInt ] >>,
                 methods |-> << [ Name |-> nStat, recv |-> "value",
                                  in |-> <<>>, out |-> <<TString>>,
                                  ref |-> "MixSvc.Stat" ] >> ],
    MethSvc |-> [ str |-> <<"M", "e", "t", "h", "S", "v", "c">>,
                  fields |-> << [ Name |-> nHook, json |-> <<>>, mcp |-> tagHook,
                                  Type |-> TFunc(<<>>, <<TString>>),
                                  ref |-> "MethSvc.Hook", isNil |-> FALSE ] >>,
                  methods |-> << [ Name |-> nFind, recv |-> "value",
                                   in |-> <<TStruct("Req")>>, out |-> <<TSlice(TString)>>,
                                   ref |-> "MethSvc.Find" ],
                                 [ Name |-> nNow, recv |-> "value",
                                   in |-> <<TString>>, out |-> <<TString>>,
                                   ref |-> "MethSvc.Now" ],
                                 [ Name |-> nSet, recv |-> "ptr",
                                   in |-> <<TInt>>, out |-> <<>>,
                                   ref |-> "MethSvc.Set" ] >> ],
    Node |-> [ str |-> <<"N", "o", "d", "e">>,
               fields |-> << [ Name |-> <<"V", "a", "l">>, json |-> <<>>, mcp |-> <<>>,
                               Type |-> TInt ],
                             [ Name |-> <<"N", "e", "x", "t">>, json |-> <<>>, mcp |-> <<>>,
                               Type |-> TPtr(TStruct("Node")) ] >>,
               methods |-> <<>> ],
    NilSvc |-> [ str |-> <<"N", "i", "l", "S", "v", "c">>,
                 fields |-> << [ Name |-> <<"L", "a", "t", "e", "r">>, json |-> <<>>, mcp |-> tagTool,
                                 Type |-> TFunc(<<TString>>, <<TString>>),
                                 ref |-> "NilSvc.Later", isNil |-> TRUE ] >>,
                 methods |-> <<>> ],
    TimeSvc |-> [ str |-> <<"T", "i", "m", "e", "S", "v", "c">>,
                  fields |-> <<>>,
                  methods |-> << [ Name |-> nGetCurrentTime, recv |-> "ptr",
                                   in |-> <<TString>>, out |-> <<TString>>,
                                   ref |-> "TimeSvc.GetCurrentTime" ] >> ] ]

\* reflect.StructField.IsExported: the name starts with an upper-case letter
IsExported(name) == Len(name) > 0 /\ \E i \in 1..26 : UpperChars[i] = name[1]

(***************************************************************************)
(* scanner.go: the type mapper and the schema builders.  A schema is a Go  *)
(* map[string]interface{}: a function whose domain holds the keys present. *)
(***************************************************************************)
\* typeToJSONSchema and parseStructToSchema call each other with no record
\* of the types they are in: on a type that reaches itself through pointers,
\* slices and exported fields the recursion never returns and the stack
\* overflows.  seen holds the struct types the recursion is inside of.
RECURSIVE recursesForever(_, _)
recursesForever(t, seen) ==
  CASE t.kind \in {"ptr", "slice", "array"} -> recursesForever(t.elem, seen)
    [] t.kind = "struct" ->
         \/ t.name \in seen
         \/ \E k \in 1..Len(StructDefs[t.name].fields) :
              /\ IsExported(StructDefs[t.name].fields[k].Name)
              /\ recursesForever(StructDefs[t.name].fields[k].Type, seen \cup {t.name})
    [] OTHER -> FALSE

RECURSIVE typeToJSONSchema(_)
RECURSIVE parseStructFields(_, _, _)

\* applyFieldTag that appends the tag part where the field's name belongs
RECURSIVE applyFieldTag_appendsPart(_, _, _, _)
applyFieldTag_appendsPart(parts, k, fieldName, acc) ==
  IF k > Len(parts) THEN acc
  ELSE LET part == parts[k]
           a1 == IF HasPrefix(part, sDescEq)
                 THEN [acc EXCEPT !.schema = MapPut(acc.schema, "description", TrimPrefix(part, sDescEq))]
                 ELSE acc
           a2 == IF part = sRequired
                 THEN [a1 EXCEPT !.required = Append(a1.required, part)]
                 ELSE a1
       IN  applyFieldTag_appendsPart(parts, k + 1, fieldName, a2)

\* the loop over the parts of a field's mcp tag: desc= sets the description
\* of the field's schema, the part "required" appends the field's name
RECURSIVE applyFieldTag(_, _, _, _)
applyFieldTag(parts, k, fieldName, acc) ==
  IF k > Len(parts) THEN acc
  ELSE LET part == parts[k]
           a1 == IF HasPrefix(part, sDescEq)
                 THEN [acc EXCEPT !.schema = MapPut(acc.schema, "description", TrimPrefix(part, sDescEq))]
                 ELSE acc
           a2 == IF part = sRequired
                 THEN [a1 EXCEPT !.required = Append(a1.required, fieldName)]
                 ELSE a1
       IN  applyFieldTag(parts, k + 1, fieldName, a2)

\* the property name parseStructToSchema gives a field
schemaFieldName(field) ==
  IF field.json # <<>> /\ field.json # sDash /\ Split(field.json, ",")[1] # <<>>
  THEN Split(field.json, ",")[1]
  ELSE field.Name

\* the loop of parseStructToSchema over the fields k..NumField
parseStructFields(fields, k, acc) ==
  IF k > Len(fields) THEN acc
  ELSE LET field == fields[k]
       IN  IF ~IsExported(field.Name) THEN parseStructFields(fields, k + 1, acc)
           ELSE LET fieldName == schemaFieldName(field)
                    tagged == IF field.mcp # <<>>
                              THEN applyFieldTag(Split(field.mcp, ","), 1, fieldName,
                                                 [schema |-> typeToJSONSchema(field.Type),
                                                  required |-> acc.required])
                              ELSE [schema |-> typeToJSONSchema(field.Type),
                                    required |-> acc.required]
                IN  parseStructFields(fields, k + 1,
                      [properties |-> MapPut(acc.properties, fieldName, tagged.schema),
                       required |-> tagged.required])

\* objectSchema that stores required whatever its length
objectSchema_alwaysRequired(properties, required) ==
  [type |-> "object", properties |-> properties, required |-> required]

\* the schema map both builders end with: required only when non-empty
objectSchema(properties, required) ==
  IF Len(required) > 0
  THEN [type |-> "object", properties |-> properties, required |-> required]
  ELSE [type |-> "object", properties |-> properties]

parseStructToSchema(t) ==
  LET acc == parseStructFields(StructDefs[t.name].fields, 1,
                               [properties |-> EmptyMap, required |-> <<>>])
  IN  objectSchema(acc.properties, acc.required)

typeToJSONSchema(t) ==
  CASE t.kind = "string" -> [type |-> "string", description |-> dString]
    [] t.kind = "int" -> [type |-> "integer", description |-> dInteger]
    [] t.kind = "float64" -> [type |-> "number", description |-> dNumber]
    [] t.kind = "bool" -> [type |-> "boolean", description |-> dBoolean]
    [] t.kind \in {"slice", "array"} ->
         [type |-> "array", items |-> typeToJSONSchema(t.elem), description |-> dArray]
    [] t.kind = "struct" -> parseStructToSchema(t)
    [] t.kind = "ptr" -> typeToJSONSchema(t.elem)
    [] OTHER -> [type |-> "object", description |-> dComplex]

\* the parameter loop of buildInputSchema from Go index i (0-based) on
RECURSIVE buildInputLoop(_, _, _, _)
buildInputLoop(funcType, startIdx, i, acc) ==
  IF i >= Len(funcType.in) THEN acc
  ELSE LET paramName == ParamN(i - startIdx + 1)
       IN  buildInputLoop(funcType, startIdx, i + 1,
             [properties |-> MapPut(acc.properties, paramName, typeToJSONSchema(funcType.in[i + 1])),
              required |-> Append(acc.required, paramName)])

\* buildInputSchema that skips the first parameter whatever its kind
buildInputSchema_skipFirst(funcType) ==
  LET startIdx == IF Len(funcType.in) > 0 THEN 1 ELSE 0
      acc == buildInputLoop(funcType, startIdx, startIdx,
                            [properties |-> EmptyMap, required |-> <<>>])
  IN  objectSchema(acc.properties, acc.required)

\* buildInputSchema: bare callables and methods; a first parameter of
\* pointer or struct kind is taken for the receiver and skipped
buildInputSchema(funcType) ==
  LET startIdx == IF Len(funcType.in) > 0 /\ funcType.in[1].kind \in {"ptr", "struct"}
                  THEN 1 ELSE 0
      acc == buildInputLoop(funcType, startIdx, startIdx,
                            [properties |-> EmptyMap, required |-> <<>>])
  IN  objectSchema(acc.properties, acc.required)

\* buildInputSchema does not return: a parameter it maps recurses forever
buildInputSchemaOverflows(funcType) ==
  LET startIdx == IF Len(funcType.in) > 0 /\ funcType.in[1].kind \in {"ptr", "struct"}
                  THEN 1 ELSE 0
  IN  \E i \in (startIdx + 1)..Len(funcType.in) : recursesForever(funcType.in[i], {})

\* buildFunctionInputSchema does not return
buildFunctionInputSchemaOverflows(funcType) ==
  \E i \in 1..Len(funcType.in) : recursesForever(funcType.in[i], {})

\* functionParamName with the fallback name numbered from the Go index
functionParamName_zeroBased(paramNames, i) ==
  IF i < Len(paramNames) /\ paramNames[i + 1] # <<>>
  THEN paramNames[i + 1]
  ELSE ParamN(i)

\* the name buildFunctionInputSchema gives the parameter at Go index i
functionParamName(paramNames, i) ==
  IF i < Len(paramNames) /\ paramNames[i + 1] # <<>>
  THEN paramNames[i + 1]
  ELSE ParamN(i + 1)

RECURSIVE buildFunctionLoop(_, _, _, _)
buildFunctionLoop(funcType, paramNames, i, acc) ==
  IF i >= Len(funcType.in) THEN acc
  ELSE LET paramName == functionParamName(paramNames, i)
       IN  buildFunctionLoop(funcType, paramNames, i + 1,
             [properties |-> MapPut(acc.properties, paramName, typeToJSONSchema(funcType.in[i + 1])),
              required |-> Append(acc.required, paramName)])

\* buildFunctionInputSchema: tagged function fields
buildFunctionInputSchema(funcType, paramNames) ==
  LET acc == buildFunctionLoop(funcType, paramNames, 0,
                               [properties |-> EmptyMap, required |-> <<>>])
  IN  objectSchema(acc.properties, acc.required)

\* paramNames[i] = strings.TrimSpace(pname) for every i
TrimAll(names) == [i \in 1..Len(names) |-> TrimSpace(names[i])]

\* the loop of parseMcpTag over the ';'-separated parts
RECURSIVE parseMcpParts(_, _, _)
parseMcpParts(parts, k, acc) ==
  IF k > Len(parts) THEN acc
  ELSE LET part == TrimSpace(parts[k])
       IN  parseMcpParts(parts, k + 1,
             IF part = sTool THEN acc
             ELSE IF HasPrefix(part, sNameEq)
                  THEN [acc EXCEPT !.name = TrimPrefix(part, sNameEq)]
             ELSE IF HasPrefix(part, sDescriptionEq)
                  THEN [acc EXCEPT !.description = TrimPrefix(part, sDescriptionEq)]
             ELSE IF HasPrefix(part, sParamNamesEq) /\ TrimPrefix(part, sParamNamesEq) # <<>>
                  THEN [acc EXCEPT !.paramNames = TrimAll(Split(TrimPrefix(part, sParamNamesEq), ","))]
             ELSE acc)

parseMcpTag(tag) ==
  parseMcpParts(Split(tag, ";"), 1, [name |-> <<>>, description |-> <<>>, paramNames |-> <<>>])

(***************************************************************************)
(* Values.  A JSON value as encoding/json decodes it into interface{}:     *)
(* nil, string, float64 (in halves), bool, []interface{} or                *)
(* map[string]interface{}.  A native value is what reflect builds for a    *)
(* parameter.                                                              *)
(***************************************************************************)
JNull == [t |-> "null"]

JStr(s) == [t |-> "str", s |-> s]

JNum(n2) == [t |-> "num", n2 |-> n2]

JBool(b) == [t |-> "bool", b |-> b]

JArr(a) == [t |-> "arr", a |-> a]

JObj(m) == [t |-> "obj", m |-> m]

VString(s) == [k |-> "string", s |-> s]

VInt(i) == [k |-> "int", i |-> i]

VFloat(n2) == [k |-> "float64", n2 |-> n2]

VBool(b) == [k |-> "bool", b |-> b]

VSlice(a) == [k |-> "slice", a |-> a]

VStruct(n, f) == [k |-> "struct", name |-> n, f |-> f]

VNil(kind) == [k |-> "nil", of |-> kind]

\* reflect.Zero
RECURSIVE Zero(_)
Zero(t) ==
  CASE t.kind = "string" -> VString(<<>>)
    [] t.kind = "int" -> VInt(0)
    [] t.kind = "float64" -> VFloat(0)
    [] t.kind = "bool" -> VBool(FALSE)
    [] t.kind = "struct" ->
         VStruct(t.name, [i \in 1..Len(StructDefs[t.name].fields) |->
                            Zero(StructDefs[t.name].fields[i].Type)])
    [] t.kind = "array" -> [k |-> "array", a |-> [i \in 1..t.len |-> Zero(t.elem)]]
    [] OTHER -> VNil(t.kind)

\* the characters of the model in byte order, for sorting map keys
CharOrder == <<" ", "-", ".", ":">> \o DigitChars \o <<"=">> \o UpperChars \o <<"[", "]", "_">> \o LowerChars

CharRank(c) == CHOOSE i \in 1..Len(CharOrder) : CharOrder[i] = c

\* a < b for Go strings
RECURSIVE StrLess(_, _)
StrLess(a, b) ==
  IF Len(b) = 0 THEN FALSE
  ELSE IF Len(a) = 0 THEN TRUE
  ELSE IF a[1] # b[1] THEN CharRank(a[1]) < CharRank(b[1])
  ELSE StrLess(Tail(a), Tail(b))

\* the keys of a map in sorted order, as fmt prints a map
RECURSIVE SortedKeys(_)
SortedKeys(ks) ==
  IF ks = {} THEN <<>>
  ELSE LET m == CHOOSE x \in ks : \A y \in ks \ {x} : StrLess(x, y)
       IN  <<m>> \o SortedKeys(ks \ {m})

\* int(num): a float64 converted to int is truncated toward zero
TruncToInt(n2) == IF n2 >= 0 THEN n2 \div 2 ELSE 0 - ((0 - n2) \div 2)

\* %v of a float64 (values small enough for the plain decimal form)
FormatFloat(n2) ==
  IF n2 % 2 = 0 THEN Itoa(TruncToInt(n2))
  ELSE (IF n2 < 0 THEN <<"-">> ELSE <<>>) \o Itoa((IF n2 < 0 THEN 0 - n2 ELSE n2) \div 2) \o <<".", "5">>

\* fmt.Sprintf("%v", value)
RECURSIVE FormatV(_)
RECURSIVE FormatList(_, _)
RECURSIVE FormatEntries(_, _, _)
FormatList(a, k) ==
  IF k > Len(a) THEN <<>>
  ELSE (IF k > 1 THEN <<" ">> ELSE <<>>) \o FormatV(a[k]) \o FormatList(a, k + 1)

FormatEntries(m, keys, k) ==
  IF k > Len(keys) THEN <<>>
  ELSE (IF k > 1 THEN <<" ">> ELSE <<>>) \o keys[k] \o <<":">> \o FormatV(m[keys[k]])
       \o FormatEntries(m, keys, k + 1)

FormatV(value) ==
  CASE value.t = "str" -> value.s
    [] value.t = "num" -> FormatFloat(value.n2)
    [] value.t = "bool" -> IF value.b THEN sTrue ELSE sFalse
    [] value.t = "arr" -> <<"[">> \o FormatList(value.a, 1) \o <<"]">>
    [] value.t = "obj" -> sMapOpen \o FormatEntries(value.m, SortedKeys(DOMAIN value.m), 1) \o <<"]">>
    [] OTHER -> <<"<", "n", "i", "l", ">">>

(***************************************************************************)
(* handler/http.go: convertValue and mapToStruct.  The result is           *)
(* [ok |-> TRUE, v |-> value] or, for the error return, [ok |-> FALSE].    *)
(***************************************************************************)
Ok(v) == [ok |-> TRUE, v |-> v]

Err == [ok |-> FALSE]

\* valueType == targetType: the dynamic type of the JSON value is the target
SameType(value, t) ==
  \/ value.t = "str" /\ t.kind = "string"
  \/ value.t = "num" /\ t.kind = "float64"
  \/ value.t = "bool" /\ t.kind = "bool"

\* reflect.ValueOf(value) when the types are the same
Native(value) ==
  CASE value.t = "str" -> VString(value.s)
    [] value.t = "num" -> VFloat(value.n2)
    [] value.t = "bool" -> VBool(value.b)

\* reflect.Type.ConvertibleTo from the dynamic type of a JSON value to a
\* type of the model: numbers convert to numbers, and a type to itself;
\* string, bool, []interface{} and map[string]interface{} convert to no
\* other kind of the model
ConvertibleTo(value, t) ==
  \/ value.t = "num" /\ t.kind \in {"int", "float64"}
  \/ SameType(value, t)

\* reflect.Value.Convert where ConvertibleTo holds
Convert(value, t) ==
  IF value.t = "num" /\ t.kind = "int" THEN VInt(TruncToInt(value.n2)) ELSE Native(value)

RECURSIVE convertValue(_, _)
RECURSIVE convertSlice(_, _, _, _)
RECURSIVE mapToStructLoop(_, _, _, _)

\* the element loop of the Slice case
convertSlice(slice, elemType, k, acc) ==
  IF k > Len(slice) THEN Ok(VSlice(acc))
  ELSE LET c == convertValue(slice[k], elemType)
       IN  IF ~c.ok THEN Err ELSE convertSlice(slice, elemType, k + 1, Append(acc, c.v))

\* structFieldName that ignores the json tag
structFieldName_nameOnly(field) == field.Name

\* the key mapToStruct reads for a field
structFieldName(field) ==
  IF field.json # <<>> /\ Split(field.json, ",")[1] # <<>>
  THEN Split(field.json, ",")[1]
  ELSE field.Name

\* the field loop of mapToStruct; acc holds the field values set so far
mapToStructLoop(argMap, fields, k, acc) ==
  IF k > Len(fields) THEN Ok(acc)
  ELSE LET field == fields[k]
           fieldName == structFieldName(field)
       IN  IF ~IsExported(field.Name) THEN mapToStructLoop(argMap, fields, k + 1, acc)
           ELSE IF fieldName \in DOMAIN argMap
           THEN LET c == convertValue(argMap[fieldName], field.Type)
                IN  IF ~c.ok THEN Err
                    ELSE mapToStructLoop(argMap, fields, k + 1, [acc EXCEPT ![k] = c.v])
           ELSE mapToStructLoop(argMap, fields, k + 1, acc)

mapToStruct(argMap, structType) ==
  LET r == mapToStructLoop(argMap, StructDefs[structType.name].fields, 1,
                           Zero(structType).f)
  IN  IF r.ok THEN Ok(VStruct(structType.name, r.v)) ELSE Err

\* the switch of convertValue: the cases that return
convertSwitch(value, t) ==
  CASE t.kind = "string" -> Ok(VString(FormatV(value)))
    [] t.kind = "int" /\ value.t = "num" -> Ok(VInt(TruncToInt(value.n2)))
    [] t.kind = "float64" /\ value.t = "num" -> Ok(VFloat(value.n2))
    [] t.kind = "bool" /\ value.t = "bool" -> Ok(VBool(value.b))
    [] t.kind = "slice" /\ value.t = "arr" -> convertSlice(value.a, t.elem, 1, <<>>)
    [] t.kind = "struct" /\ value.t = "obj" -> mapToStruct(value.m, t)
    [] OTHER -> IF ConvertibleTo(value, t) THEN Ok(Convert(value, t)) ELSE Err

convertValue(value, t) ==
  IF value.t = "null" THEN Ok(Zero(t))
  ELSE IF SameType(value, t) THEN Ok(Native(value))
  ELSE convertSwitch(value, t)

(***************************************************************************)
(* scanner.go: ScanTool and ScanStruct.  A value passed as interface{} is  *)
(* NilValue (the nil interface), a func (FuncValue) or any other value     *)
(* (OtherValue, with its type).  A scan returns status "ok" with its       *)
(* result, "error" for the error return, "panic", or "overflow" when the   *)
(* scan exhausts the stack, which ends the process.                        *)
(***************************************************************************)
NilValue == [iface |-> "nil"]

FuncValue(ref, type, isNil) == [iface |-> "func", type |-> type, ref |-> ref, isNil |-> isNil]

OtherValue(type) == [iface |-> "other", type |-> type]

\* reflect.Type.String
RECURSIVE TypeString(_)
RECURSIVE TypeList(_, _)
TypeList(ts, k) ==
  IF k > Len(ts) THEN <<>>
  ELSE (IF k > 1 THEN <<",", " ">> ELSE <<>>) \o TypeString(ts[k]) \o TypeList(ts, k + 1)

TypeString(t) ==
  CASE t.kind = "string" -> sString
    [] t.kind = "int" -> sInt
    [] t.kind = "float64" -> sFloat64
    [] t.kind = "bool" -> sBool
    [] t.kind = "chan" -> sChanInt
    [] t.kind = "error" -> <<"e", "r", "r", "o", "r">>
    [] t.kind = "slice" -> <<"[", "]">> \o TypeString(t.elem)
    [] t.kind = "array" -> <<"[">> \o Itoa(t.len) \o <<"]">> \o TypeString(t.elem)
    [] t.kind = "ptr" -> <<"*">> \o TypeString(t.elem)
    [] t.kind = "struct" -> sPkgDot \o StructDefs[t.name].str
    [] t.kind = "func" ->
         sFuncOpen \o TypeList(t.in, 1) \o <<")">> \o
         (IF Len(t.out) = 0 THEN <<>>
          ELSE IF Len(t.out) = 1 THEN <<" ">> \o TypeString(t.out[1])
          ELSE <<" ", "(">> \o TypeList(t.out, 1) \o <<")">>)

\* getFunctionName: the text of the func's type after its last '.'
getFunctionName(fn) ==
  LET fullName == TypeString(fn.type)
  IN  IF Contains(fullName, <<".">>)
      THEN Split(fullName, ".")[Len(Split(fullName, "."))]
      ELSE fullName

ScanTool(handler) ==
  IF handler.iface = "nil" THEN [status |-> "panic"]
  ELSE IF handler.type.kind # "func" THEN [status |-> "error"]
  ELSE IF buildInputSchemaOverflows(handler.type) THEN [status |-> "overflow"]
  ELSE LET funcName == getFunctionName(handler)
       IN  [status |-> "ok",
            tool |-> [Name |-> ToLower(funcName),
                      Description |-> sAutoTool \o funcName,
                      InputSchema |-> buildInputSchema(handler.type),
                      Handler |-> handler]]

parseFieldAsTool(fn, field, mcpTag) ==
  LET tag == parseMcpTag(mcpTag)
  IN  [Name |-> IF tag.name = <<>> THEN ToLower(field.Name) ELSE tag.name,
       Description |-> tag.description,
       InputSchema |-> buildFunctionInputSchema(field.Type, tag.paramNames),
       Handler |-> fn]

\* the condition under which ScanStruct takes a field for a tool
isToolField(field) ==
  /\ field.Type.kind = "func"
  /\ field.mcp # <<>>
  /\ Contains(field.mcp, sTool)

\* the field loop of ScanStruct; Interface() on an unexported field panics
RECURSIVE scanFields(_, _, _)
scanFields(fields, k, acc) ==
  IF k > Len(fields) THEN [status |-> "ok", tools |-> acc]
  ELSE LET field == fields[k]
       IN  IF isToolField(field)
           THEN IF ~IsExported(field.Name) THEN [status |-> "panic"]
                ELSE IF buildFunctionInputSchemaOverflows(field.Type) THEN [status |-> "overflow"]
                ELSE scanFields(fields, k + 1,
                       Append(acc, parseFieldAsTool(FuncValue(field.ref, field.Type, field.isNil),
                                                    field, field.mcp)))
           ELSE scanFields(fields, k + 1, acc)

\* the method set reflect gives the struct value: exported methods with a
\* value receiver
MethodSet(structType) ==
  SelectSeq(StructDefs[structType.name].methods,
            LAMBDA m : m.recv = "value" /\ IsExported(m.Name))

\* method is the bound method value, methodType.Type has the receiver first
parseMethodAsTool(structType, m) ==
  [Name |-> ToLower(m.Name),
   Description |-> sAutoMethod \o m.Name,
   InputSchema |-> buildInputSchema(TFunc(<<structType>> \o m.in, m.out)),
   Handler |-> FuncValue(m.ref, TFunc(m.in, m.out), FALSE)]

scanStructMethods(structType) ==
  LET ms == MethodSet(structType)
  IN  IF \E i \in 1..Len(ms) :
           buildInputSchemaOverflows(TFunc(<<structType>> \o ms[i].in, ms[i].out))
      THEN [status |-> "overflow"]
      ELSE [status |-> "ok", tools |-> [i \in 1..Len(ms) |-> parseMethodAsTool(structType, ms[i])]]

\* ScanStruct that scans the methods whatever the fields gave
ScanStruct_alwaysMethods(obj) ==
  IF obj.iface = "nil" THEN [status |-> "panic"]
  ELSE LET objType == IF obj.type.kind = "ptr" THEN obj.type.elem ELSE obj.type
       IN  IF objType.kind # "struct" THEN [status |-> "error"]
           ELSE LET r == scanFields(StructDefs[objType.name].fields, 1, <<>>)
                IN  IF r.status = "ok"
                    THEN [status |-> "ok", tools |-> r.tools \o scanStructMethods(objType).tools]
                    ELSE r

ScanStruct(obj) ==
  IF obj.iface = "nil" THEN [status |-> "panic"]
  ELSE LET objType == IF obj.type.kind = "ptr" THEN obj.type.elem ELSE obj.type
       IN  IF objType.kind # "struct" THEN [status |-> "error"]
           ELSE LET r == scanFields(StructDefs[objType.name].fields, 1, <<>>)
                IN  IF r.status = "ok" /\ Len(r.tools) = 0
                    THEN scanStructMethods(objType)
                    ELSE r

(***************************************************************************)
(* handler/http.go: invokeHandler and callTool.  The argument map is       *)
(* [present, kv]: present is FALSE when the request has no arguments (a    *)
(* nil map, which reads like an empty one).  Ranging over a Go map visits  *)
(* the keys in an unspecified order, so a loop that stops at its first hit *)
(* may stop at any hit: an invocation has a set of possible outcomes.      *)
(***************************************************************************)
\* the raw values the binding step can pick for the parameter at Go index i
BoundValues(i, numIn, paramType, kv) ==
  IF i = 0 /\ numIn = 1
  THEN IF paramType.kind = "struct" THEN {JObj(kv)}
       ELSE IF DOMAIN kv = {} THEN {JNull}
       ELSE {kv[k] : k \in DOMAIN kv}
  ELSE LET paramName == ParamN(i + 1)
       IN  IF paramName \in DOMAIN kv THEN {kv[paramName]}
           ELSE IF \E k \in DOMAIN kv : EqualFold(k, paramName)
           THEN {kv[k] : k \in {x \in DOMAIN kv : EqualFold(x, paramName)}}
           ELSE {JNull}

\* an outcome of an invocation: bound holds the raw values the loop bound
\* (paramValue of each iteration it ran), args the values the func was
\* called with
Outcome(status, err, param, called, ref, bound, args, result) ==
  [status |-> status, err |-> err, param |-> param, called |-> called,
   ref |-> ref, bound |-> bound, args |-> args, result |-> result]

\* what a func can hand back for a result of type t: its body is the
\* application's, so an error result may be nil or not
ReturnValues(t) == IF t.kind = "error" THEN {"noerr", "err"} ELSE {"value"}

\* the result lists a call can produce for the result types out
Returned(out) ==
  {r \in [1..Len(out) -> {"value", "noerr", "err"}] :
     \A i \in 1..Len(out) : r[i] \in ReturnValues(out[i])}

\* the result part of an outcome: what the func returned and what
\* invokeHandler returns as result
Result(returned, value) == [returned |-> returned, value |-> value]

NoResult == Result(<<>>, "none")

\* callHandler that reports a non-nil error among the results as the
\* failure of the invocation
callHandler_errorAware(handler, bound, args) ==
  IF handler.isNil
  THEN {Outcome("panic", "nil_func", 0 - 1, FALSE, handler.ref, bound, <<>>, NoResult)}
  ELSE {IF \E i \in 1..Len(r) : r[i] = "err"
        THEN Outcome("error", "handler", 0 - 1, TRUE, handler.ref, bound, args, Result(r, "nil"))
        ELSE Outcome("ok", "none", 0 - 1, TRUE, handler.ref, bound, args,
                     Result(r, IF Len(r) = 0 THEN "nil" ELSE r[1]))
        : r \in Returned(handler.type.out)}

\* handlerValue.Call(args) and the result extraction, one outcome for each
\* result list the func can return: result is nil when the func returns
\* nothing and results[0] otherwise; calling a nil func panics
callHandler(handler, bound, args) ==
  IF handler.isNil
  THEN {Outcome("panic", "nil_func", 0 - 1, FALSE, handler.ref, bound, <<>>, NoResult)}
  ELSE {Outcome("ok", "none", 0 - 1, TRUE, handler.ref, bound, args,
                Result(r, IF Len(r) = 0 THEN "nil" ELSE r[1]))
        : r \in Returned(handler.type.out)}

\* convertStep that ignores the conversion error and goes on with the zero
\* value convertValue returns beside it
convertStep_zeroOnError(handler, i, v) ==
  LET c == convertValue(v, handler.type.in[i + 1])
  IN  IF c.ok THEN [ok |-> TRUE, v |-> c.v, next |-> i + 1]
      ELSE [ok |-> TRUE, v |-> Zero(handler.type.in[i + 1]), next |-> i + 1]

\* one iteration of the parameter loop for the bound value v: the index of
\* the next iteration when the conversion succeeds
convertStep(handler, i, v) ==
  LET c == convertValue(v, handler.type.in[i + 1])
  IN  IF c.ok THEN [ok |-> TRUE, v |-> c.v, next |-> i + 1] ELSE [ok |-> FALSE]

\* the parameter loop of invokeHandler from Go index i on: bind, convert,
\* return at the first failure; the call comes after the loop
RECURSIVE invokeLoop(_, _, _, _, _)
invokeLoop(handler, kv, i, bound, args) ==
  IF i >= Len(handler.type.in) THEN callHandler(handler, bound, args)
  ELSE UNION { LET c == convertStep(handler, i, v)
               IN  IF ~c.ok
                   THEN {Outcome("error", "convert", i, FALSE, handler.ref,
                                 Append(bound, v), <<>>, NoResult)}
                   ELSE invokeLoop(handler, kv, c.next, Append(bound, v), Append(args, c.v))
               : v \in BoundValues(i, Len(handler.type.in), handler.type.in[i + 1], kv) }

\* the outcomes invokeHandler can have
invokeHandler(handler, arguments) ==
  IF handler.type.kind # "func"
  THEN {Outcome("error", "not_func", 0 - 1, FALSE, "none", <<>>, <<>>, NoResult)}
  ELSE invokeLoop(handler, arguments.kv, 0, <<>>, <<>>)

\* callTool whose search leaves targetTool at the last tool looked at
callTool_lastTool(ts, toolName, arguments) ==
  IF \E i \in 1..Len(ts) : ts[i].Name = toolName
  THEN LET t == CHOOSE i \in 1..Len(ts) :
                  ts[i].Name = toolName /\ \A j \in 1..(i - 1) : ts[j].Name # toolName
       IN  invokeHandler(ts[t].Handler, arguments)
  ELSE IF Len(ts) > 0 THEN invokeHandler(ts[Len(ts)].Handler, arguments)
  ELSE {Outcome("error", "not_found", 0 - 1, FALSE, "none", <<>>, <<>>, NoResult)}

\* callTool whose search does not stop at its first hit, so that the last
\* tool of that name is the one invoked
callTool_lastMatch(ts, toolName, arguments) ==
  IF \E i \in 1..Len(ts) : ts[i].Name = toolName
  THEN LET t == CHOOSE i \in 1..Len(ts) :
                  ts[i].Name = toolName /\ \A j \in (i + 1)..Len(ts) : ts[j].Name # toolName
       IN  invokeHandler(ts[t].Handler, arguments)
  ELSE {Outcome("error", "not_found", 0 - 1, FALSE, "none", <<>>, <<>>, NoResult)}

\* the outcomes callTool can have on the tool list ts
callTool(ts, toolName, arguments) ==
  IF \E i \in 1..Len(ts) : ts[i].Name = toolName
  THEN LET t == CHOOSE i \in 1..Len(ts) :
                  ts[i].Name = toolName /\ \A j \in 1..(i - 1) : ts[j].Name # toolName
       IN  invokeHandler(ts[t].Handler, arguments)
  ELSE {Outcome("error", "not_found", 0 - 1, FALSE, "none", <<>>, <<>>, NoResult)}

(***************************************************************************)
(* The inputs the application and its callers supply.                      *)
(***************************************************************************)
\* values passed to RegisterTool: funcs, a nil func, a non-func, nil
HandlerInputs ==
  { FuncValue("fnEcho", TFunc(<<TString>>, <<TString>>), FALSE),
    FuncValue("fnGreet", TFunc(<<TString>>, <<TString>>), FALSE),
    FuncValue("fnAdd", TFunc(<<TInt, TFloat64>>, <<TInt>>), FALSE),
    FuncValue("fnTime", TFunc(<<>>, <<TString>>), FALSE),
    FuncValue("fnReq", TFunc(<<TStruct("Req")>>, <<TSlice(TString)>>), FALSE),
    FuncValue("fnSum", TFunc(<<TSlice(TInt)>>, <<TInt, TError>>), FALSE),
    FuncValue("fnWalk", TFunc(<<TInt, TPtr(TStruct("Node"))>>, <<TInt>>), FALSE),
    OtherValue(TInt),
    NilValue }

\* values passed to RegisterService
ServiceInputs ==
  { OtherValue(TPtr(TStruct("MySvc"))),
    OtherValue(TStruct("MixSvc")),
    OtherValue(TStruct("MethSvc")),
    OtherValue(TPtr(TStruct("TimeSvc"))),
    OtherValue(TInt),
    NilValue }

Args(kv) == [present |-> TRUE, kv |-> kv]

NoArgs == [present |-> FALSE, kv |-> EmptyMap]

\* a map of two entries
Map2(k1, v1, k2, v2) == MapPut(MapPut(EmptyMap, k1, v1), k2, v2)

\* the argument maps of invoke requests
ArgMaps ==
  { NoArgs,
    Args(EmptyMap),
    Args(Map2(kKeyword, JStr(vA), kLimit, JNum(4))),
    Args(MapPut(EmptyMap, kKeyword, JStr(vAnn))),
    Args(Map2(kParam1, JStr(vA), kParam2, JNum(4))),
    Args(Map2(kParam1, JNum(10), kParam2, JNum(11))),
    Args(Map2(kParam1, JStr(vA), kParam2, JStr(vX))),
    Args(MapPut(EmptyMap, kMessage, JStr(vHi))),
    Args(MapPut(EmptyMap, kLimit, JStr(vX))),
    Args(Map2(sDash, JStr(vX), kSecret, JStr(vY))),
    Args(MapPut(Map2(kKeyword, JNum(11), kNote, JBool(TRUE)), kHid, JBool(TRUE))),
    Args(MapPut(EmptyMap, kParam1, JArr(<<JNum(2), JNum(5)>>))),
    Args(MapPut(EmptyMap, kParam1, JArr(<<JNum(2), JStr(vX)>>))),
    Args(MapPut(Map2(kParam1Cap, JStr(vX), kParam1Up, JStr(vY)), kParam2, JNum(0 - 3))) }

\* how many HTTP servers the Start calls of one run create
MaxStarts == 2

\* how many HTTP requests one run serves concurrently
MaxRequests == 2

Requests == 1..MaxRequests

(***************************************************************************)
(* The state.  tools is Server.tools; running, protocol and httpServer are *)
(* the Server fields of those names, httpServer being an index into        *)
(* servers (0 for nil).  servers holds the httpclient.Server values that   *)
(* Start calls created: inner is the state of the wrapped *http.Server     *)
(* ("nil" until the wrapper's Start assigns it), go the position of the    *)
(* goroutine that Start launched for it.  reqs holds the HTTP requests in  *)
(* flight, each on its own goroutine.  last is the last operation with its *)
(* input and result; crashed tells that a panic or a stack overflow has    *)
(* ended the process.  client is the registry.Client the application       *)
(* registers the server with.                                              *)
(***************************************************************************)
VARIABLES tools, last, crashed, running, protocol, httpServer, servers, reqs, client

vars == <<tools, last, crashed, running, protocol, httpServer, servers, reqs, client>>

\* the fields of Server that Start and Stop use
lifeVars == <<running, protocol, httpServer, servers>>

\* a request slot no request occupies
IdleRequest == [pc |-> "idle"]

\* NewServer, with the protocol the options gave
NewServer(p) ==
  /\ tools = <<>>
  /\ last = [op |-> "none"]
  /\ crashed = FALSE
  /\ running = FALSE
  /\ protocol = p
  /\ httpServer = 0
  /\ servers = <<>>
  /\ reqs = [r \in Requests |-> IdleRequest]

\* registry.NewClient with the WithAuth option, or without it when both
\* strings are empty
NewClient(username, password) ==
  [username |-> username, password |-> password, accessToken |-> <<>>]

\* the default protocol is SSE; no credentials for the registry
Init == NewServer("sse") /\ client = NewClient(<<>>, <<>>)

\* scanner.ToolInfo copied into a types.Tool
toTool(info) ==
  [Name |-> info.Name, Description |-> info.Description,
   InputSchema |-> info.InputSchema, Handler |-> info.Handler]

\* Server.RegisterTool
RegisterTool(handler) ==
  /\ ~crashed
  /\ Len(tools) < MaxTools
  /\ LET r == ScanTool(handler)
     IN  /\ tools' = IF r.status = "ok" THEN Append(tools, toTool(r.tool)) ELSE tools
         /\ last' = [op |-> "RegisterTool", in |-> handler, status |-> r.status,
                     added |-> IF r.status = "ok" THEN <<toTool(r.tool)>> ELSE <<>>]
         /\ crashed' = (r.status \in {"panic", "overflow"})
         /\ UNCHANGED <<lifeVars, reqs, client>>

\* RegisterService that stores the scanned tools in place of the list
RegisterService_overwrites(service) ==
  /\ ~crashed
  /\ Len(tools) < MaxTools
  /\ LET r == ScanStruct(service)
         added == IF r.status = "ok" THEN [i \in 1..Len(r.tools) |-> toTool(r.tools[i])]
                  ELSE <<>>
     IN  /\ tools' = IF r.status = "ok" THEN added ELSE tools
         /\ last' = [op |-> "RegisterService", in |-> service, status |-> r.status,
                     added |-> added]
         /\ crashed' = (r.status \in {"panic", "overflow"})
         /\ UNCHANGED <<lifeVars, reqs, client>>

\* Server.RegisterService
RegisterService(service) ==
  /\ ~crashed
  /\ Len(tools) < MaxTools
  /\ LET r == ScanStruct(service)
         added == IF r.status = "ok" THEN [i \in 1..Len(r.tools) |-> toTool(r.tools[i])]
                  ELSE <<>>
     IN  /\ tools' = tools \o added
         /\ last' = [op |-> "RegisterService", in |-> service, status |-> r.status,
                     added |-> added]
         /\ crashed' = (r.status \in {"panic", "overflow"})
         /\ UNCHANGED <<lifeVars, reqs, client>>

\* the list listTools builds from the tool list ts
Listing(ts) ==
  [i \in 1..Len(ts) |->
     [name |-> ts[i].Name, description |-> ts[i].Description,
      inputSchema |-> ts[i].InputSchema]]

\* HTTPHandler.listTools: name, description and inputSchema of every tool
ListTools ==
  /\ ~crashed
  /\ last' = [op |-> "list",
              out |-> [i \in 1..Len(tools) |->
                         [name |-> tools[i].Name, description |-> tools[i].Description,
                          inputSchema |-> tools[i].InputSchema]]]
  /\ UNCHANGED <<tools, crashed, lifeVars, reqs, client>>

\* the tool names of invoke requests: the registered ones and one that no
\* tool has, which differs from the registered name echo in case only
InvokeNames == {tools[i].Name : i \in 1..Len(tools)} \cup {nEcho}

\* HTTPHandler.callTool for one request; a panic in a request is recovered
\* by net/http and ends that request only
InvokeTool(toolName, arguments) ==
  /\ ~crashed
  /\ \E o \in callTool(tools, toolName, arguments) :
       last' = [op |-> "invoke", name |-> toolName, args |-> arguments, out |-> o]
  /\ UNCHANGED <<tools, crashed, lifeVars, reqs, client>>

Next ==
  \/ \E h \in HandlerInputs : RegisterTool(h)
  \/ \E s \in ServiceInputs : RegisterService(s)
  \/ ListTools
  \/ \E n \in InvokeNames, a \in ArgMaps : InvokeTool(n, a)

Spec == Init /\ [][Next]_vars

(***************************************************************************)
(* mcp.go Start and Stop, and the goroutine of httpclient.Server.Start.    *)
(***************************************************************************)
\* httpclient.NewServer: the wrapper before its Start has run
NewHTTPServer == [inner |-> "nil", go |-> "spawned"]

\* Server.Start: an error when already running; otherwise, unless the
\* protocol is stdio, a new HTTP server and a goroutine for its Start
Start ==
  /\ ~crashed
  /\ IF running
     THEN /\ last' = [op |-> "Start", status |-> "error"]
          /\ UNCHANGED <<running, httpServer, servers>>
     ELSE /\ IF protocol # "stdio"
             THEN /\ Len(servers) < MaxStarts
                  /\ servers' = Append(servers, NewHTTPServer)
                  /\ httpServer' = Len(servers) + 1
             ELSE UNCHANGED <<httpServer, servers>>
          /\ running' = TRUE
          /\ last' = [op |-> "Start", status |-> "ok"]
  /\ UNCHANGED <<tools, crashed, protocol, reqs, client>>

\* httpclient.Server.Shutdown on the wrapper w: nil when the wrapped server
\* is not assigned yet; http.Server.Shutdown closes the listener and fails
\* only when the context ends while connections are still open
ShutdownOutcomes(w) ==
  IF w.inner = "nil" THEN {[inner |-> "nil", err |-> FALSE]}
  ELSE IF w.inner = "listening"
  THEN {[inner |-> "shutdown", err |-> e] : e \in BOOLEAN}
  ELSE {[inner |-> "shutdown", err |-> FALSE]}

\* Stop that clears the running flag also when the shutdown fails
Stop_clearsOnError ==
  /\ ~crashed
  /\ IF ~running
     THEN /\ last' = [op |-> "Stop", status |-> "ok"]
          /\ UNCHANGED <<running, servers>>
     ELSE IF httpServer = 0
     THEN /\ running' = FALSE
          /\ last' = [op |-> "Stop", status |-> "ok"]
          /\ UNCHANGED servers
     ELSE \E o \in ShutdownOutcomes(servers[httpServer]) :
            /\ servers' = [servers EXCEPT ![httpServer].inner = o.inner]
            /\ running' = FALSE
            /\ last' = [op |-> "Stop", status |-> IF o.err THEN "error" ELSE "ok"]
  /\ UNCHANGED <<tools, crashed, protocol, httpServer, reqs, client>>

\* Server.Stop: nil when not running; an error, with running left as it
\* is, when the shutdown fails; otherwise running = false
Stop ==
  /\ ~crashed
  /\ IF ~running
     THEN /\ last' = [op |-> "Stop", status |-> "ok"]
          /\ UNCHANGED <<running, servers>>
     ELSE IF httpServer = 0
     THEN /\ running' = FALSE
          /\ last' = [op |-> "Stop", status |-> "ok"]
          /\ UNCHANGED servers
     ELSE \E o \in ShutdownOutcomes(servers[httpServer]) :
            /\ servers' = [servers EXCEPT ![httpServer].inner = o.inner]
            /\ running' = IF o.err THEN running ELSE FALSE
            /\ last' = [op |-> "Stop", status |-> IF o.err THEN "error" ELSE "ok"]
  /\ UNCHANGED <<tools, crashed, protocol, httpServer, reqs, client>>

\* the goroutine of Start, first step: httpclient.Server.Start assigns the
\* wrapped http.Server
GoAssign(i) ==
  /\ ~crashed
  /\ servers[i].go = "spawned"
  /\ servers' = [servers EXCEPT ![i] = [inner |-> "new", go |-> "assigned"]]
  /\ UNCHANGED <<tools, last, crashed, running, protocol, httpServer, reqs, client>>

\* second step: ListenAndServe.  After Shutdown it returns ErrServerClosed
\* at once; the address is taken while another server of this process
\* listens on it; otherwise it listens, or fails for a reason outside the
\* process
GoListen(i) ==
  /\ ~crashed
  /\ servers[i].go = "assigned"
  /\ IF servers[i].inner = "shutdown"
     THEN servers' = [servers EXCEPT ![i].go = "exited"]
     ELSE IF \E j \in 1..Len(servers) : j # i /\ servers[j].inner = "listening"
     THEN servers' = [servers EXCEPT ![i] = [inner |-> "failed", go |-> "exited"]]
     ELSE \/ servers' = [servers EXCEPT ![i] = [inner |-> "listening", go |-> "serving"]]
          \/ servers' = [servers EXCEPT ![i] = [inner |-> "failed", go |-> "exited"]]
  /\ UNCHANGED <<tools, last, crashed, running, protocol, httpServer, reqs, client>>

\* last step: Serve returns once the server has been shut down
GoExit(i) ==
  /\ ~crashed
  /\ servers[i].go = "serving"
  /\ servers[i].inner = "shutdown"
  /\ servers' = [servers EXCEPT ![i].go = "exited"]
  /\ UNCHANGED <<tools, last, crashed, running, protocol, httpServer, reqs, client>>

\* the registrations and requests of the runs that exercise the lifecycle
LifeHandlers ==
  { FuncValue("fnGreet", TFunc(<<TString>>, <<TString>>), FALSE),
    OtherValue(TInt) }

LifeServices == { OtherValue(TPtr(TStruct("MySvc"))), NilValue }

LifeArgs == { Args(Map2(kParam1, JStr(vA), kParam2, JNum(4))) }

InitLife == (\E p \in {"sse", "stdio"} : NewServer(p)) /\ client = NewClient(<<>>, <<>>)

NextLife ==
  \/ \E h \in LifeHandlers : RegisterTool(h)
  \/ \E s \in LifeServices : RegisterService(s)
  \/ Start
  \/ Stop
  \/ \E i \in 1..Len(servers) : GoAssign(i)
  \/ \E i \in 1..Len(servers) : GoListen(i)
  \/ \E i \in 1..Len(servers) : GoExit(i)
  \/ ListTools
  \/ \E n \in InvokeNames, a \in LifeArgs : InvokeTool(n, a)

SpecLife == InitLife /\ [][NextLife]_vars

(***************************************************************************)
(* handler/http.go, listTools and callTool statement by statement.  Each   *)
(* HTTP request runs on a goroutine of its own; holds tells whether the    *)
(* request holds h.mu for reading.  No code path takes h.mu for writing,   *)
(* so RLock never waits.                                                   *)
(***************************************************************************)
\* a request reaches listTools (kind "list") or callTool (kind "invoke")
ReqArrive(r, kind, toolName, arguments) ==
  /\ ~crashed
  /\ reqs[r].pc = "idle"
  /\ reqs' = [reqs EXCEPT ![r] = [pc |-> "arrived", kind |-> kind, name |-> toolName,
                                  args |-> arguments, holds |-> FALSE]]
  /\ UNCHANGED <<tools, last, crashed, lifeVars, client>>

\* h.mu.RLock()
ReqRLock(r) ==
  /\ ~crashed
  /\ reqs[r].pc = "arrived"
  /\ reqs' = [reqs EXCEPT ![r].pc = "locked", ![r].holds = TRUE]
  /\ UNCHANGED <<tools, last, crashed, lifeVars, client>>

\* tools := h.server.GetTools()
ReqGetTools(r) ==
  /\ ~crashed
  /\ reqs[r].pc = "locked"
  /\ reqs' = [reqs EXCEPT ![r] = [pc |-> "read", kind |-> reqs[r].kind, name |-> reqs[r].name,
                                  args |-> reqs[r].args, holds |-> reqs[r].holds,
                                  tools |-> tools]]
  /\ UNCHANGED <<tools, last, crashed, lifeVars, client>>

\* ReqRUnlock that leaves the lock held, as a deferred RUnlock would until
\* the handler has returned
ReqRUnlock_deferred(r) ==
  /\ ~crashed
  /\ reqs[r].pc = "read"
  /\ reqs' = [reqs EXCEPT ![r].pc = "unlocked"]
  /\ UNCHANGED <<tools, last, crashed, lifeVars, client>>

\* h.mu.RUnlock()
ReqRUnlock(r) ==
  /\ ~crashed
  /\ reqs[r].pc = "read"
  /\ reqs' = [reqs EXCEPT ![r].pc = "unlocked", ![r].holds = FALSE]
  /\ UNCHANGED <<tools, last, crashed, lifeVars, client>>

\* a request slot after its response: what it answered
DoneRequest(req, out) ==
  [pc |-> "done", kind |-> req.kind, name |-> req.name, holds |-> req.holds, out |-> out]

\* listTools after the unlock: the list is built and written
ReqFinishList(r) ==
  /\ ~crashed
  /\ reqs[r].pc = "unlocked"
  /\ reqs[r].kind = "list"
  /\ reqs' = [reqs EXCEPT ![r] = DoneRequest(reqs[r], Listing(reqs[r].tools))]
  /\ UNCHANGED <<tools, last, crashed, lifeVars, client>>

\* callTool after the unlock: the search, the binding and the call.  An
\* outcome that calls the func leaves the request inside the func, which
\* returns or blocks forever as the application wrote it
ReqCall(r) ==
  /\ ~crashed
  /\ reqs[r].pc = "unlocked"
  /\ reqs[r].kind = "invoke"
  /\ \E o \in callTool(reqs[r].tools, reqs[r].name, reqs[r].args) :
       IF o.called
       THEN \E b \in BOOLEAN :
              reqs' = [reqs EXCEPT ![r] = [pc |-> "calling", kind |-> "invoke",
                                          name |-> reqs[r].name, holds |-> reqs[r].holds,
                                          out |-> o, blocks |-> b]]
       ELSE reqs' = [reqs EXCEPT ![r] = DoneRequest(reqs[r], o)]
  /\ UNCHANGED <<tools, last, crashed, lifeVars, client>>

\* the func returns and the response is written
ReqReturn(r) ==
  /\ ~crashed
  /\ reqs[r].pc = "calling"
  /\ ~reqs[r].blocks
  /\ reqs' = [reqs EXCEPT ![r] = DoneRequest(reqs[r], reqs[r].out)]
  /\ UNCHANGED <<tools, last, crashed, lifeVars, client>>

\* the steps of request r after its arrival
ReqStep(r) ==
  \/ ReqRLock(r)
  \/ ReqGetTools(r)
  \/ ReqRUnlock(r)
  \/ ReqFinishList(r)
  \/ ReqCall(r)
  \/ ReqReturn(r)

\* the funcs registered and the arguments sent in the runs with concurrent
\* requests
LockHandlers == { FuncValue("fnEcho", TFunc(<<TString>>, <<TString>>), FALSE) }

LockArgs == Args(MapPut(EmptyMap, kMessage, JStr(vHi)))

\* the tool names of the concurrent invoke requests: the registered ones
LockNames == {tools[i].Name : i \in 1..Len(tools)}

NextLock ==
  \/ \E h \in LockHandlers : RegisterTool(h)
  \/ \E r \in Requests : ReqArrive(r, "list", <<>>, NoArgs)
  \/ \E r \in Requests, n \in LockNames : ReqArrive(r, "invoke", n, LockArgs)
  \/ \E r \in Requests : ReqStep(r)

\* every request's goroutine keeps being scheduled
FairLock == \A r \in Requests : WF_vars(ReqStep(r))

SpecLock == Init /\ [][NextLock]_vars /\ FairLock

(***************************************************************************)
(* handler/http.go invokeTool: one request to the route /mcp/tools/ from   *)
(* its method, path and body to its response.  A body is either not JSON   *)
(* or the JSON document it holds; a response is the status code and the    *)
(* text or JSON value written, code 0 when the handler panicked and        *)
(* net/http closed the connection without an answer.                       *)
(***************************************************************************)
sRoute == <<"/", "m", "c", "p", "/", "t", "o", "o", "l", "s", "/">>

sInvoke == <<"i", "n", "v", "o", "k", "e">>

kArguments == <<"a", "r", "g", "u", "m", "e", "n", "t", "s">>

sMethodNotAllowed == <<"M", "e", "t", "h", "o", "d", " ", "n", "o", "t", " ", "a", "l", "l", "o", "w", "e", "d">>

sInvalidPath == <<"B", "a", "d", " ", "R", "e", "q", "u", "e", "s", "t", ":", " ", "I", "n", "v", "a", "l", "i", "d", " ", "p", "a", "t", "h", " ", "f", "o", "r", "m", "a", "t">>

sInvalidJSON == <<"I", "n", "v", "a", "l", "i", "d", " ", "J", "S", "O", "N">>

sExecFailed == <<"T", "o", "o", "l", " ", "e", "x", "e", "c", "u", "t", "i", "o", "n", " ", "f", "a", "i", "l", "e", "d", ":", " ">>

sToolQuote == <<"t", "o", "o", "l", " ", "'">>

sNotFound == <<"'", " ", "n", "o", "t", " ", "f", "o", "u", "n", "d">>

sConvertParameter == <<"c", "o", "n", "v", "e", "r", "t", " ", "p", "a", "r", "a", "m", "e", "t", "e", "r", " ">>

sFailed == <<" ", "f", "a", "i", "l", "e", "d", ":", " ">>

sNotAFunction == <<"h", "a", "n", "d", "l", "e", "r", " ", "i", "s", " ", "n", "o", "t", " ", "a", " ", "f", "u", "n", "c", "t", "i", "o", "n">>

BadBody == [valid |-> FALSE]

Body(doc) == [valid |-> TRUE, doc |-> doc]

\* json.Unmarshal(body, &req) for req struct{Arguments map[string]interface{}}:
\* the document must be an object or null, and its member arguments, when
\* there is one, an object or null
Unmarshal(body) ==
  IF ~body.valid THEN Err
  ELSE IF body.doc.t = "null" THEN Ok(NoArgs)
  ELSE IF body.doc.t # "obj" THEN Err
  ELSE IF kArguments \notin DOMAIN body.doc.m THEN Ok(NoArgs)
  ELSE LET a == body.doc.m[kArguments]
       IN  IF a.t = "null" THEN Ok(NoArgs)
           ELSE IF a.t = "obj" THEN Ok(Args(a.m))
           ELSE Err

Response(code, body) == [code |-> code, body |-> body]

\* err.Error() of the error callTool returned; the text of the wrapped
\* conversion error, which follows "failed: ", is left out
errorText(o, toolName) ==
  CASE o.err = "not_found" -> sToolQuote \o toolName \o sNotFound
    [] o.err = "convert" -> sConvertParameter \o Itoa(o.param) \o sFailed
    [] o.err = "not_func" -> sNotAFunction

\* the answer to every failure of callTool with one text
respond_oneText(o, toolName) ==
  CASE o.status = "panic" -> Response(0, <<>>)
    [] o.status = "error" -> Response(500, sExecFailed)
    [] OTHER -> Response(200, [content |-> o.result.value])

\* the response invokeTool writes for the outcome o of callTool
respond(o, toolName) ==
  CASE o.status = "panic" -> Response(0, <<>>)
    [] o.status = "error" -> Response(500, sExecFailed \o errorText(o, toolName))
    [] OTHER -> Response(200, [content |-> o.result.value])

\* rejection that does not look at the method
rejection_anyMethod(method, path, body) ==
  LET parts == Split(TrimPrefix(path, sRoute), "/")
  IN  IF Len(parts) < 2 \/ parts[1] = <<>> \/ parts[2] # sInvoke
      THEN Ok(Response(400, sInvalidPath))
      ELSE IF ~Unmarshal(body).ok THEN Ok(Response(400, sInvalidJSON))
      ELSE Err

\* the checks of invokeTool before callTool: the response that ends the
\* request there, or none
rejection(method, path, body) ==
  LET parts == Split(TrimPrefix(path, sRoute), "/")
  IN  IF method # "POST" THEN Ok(Response(405, sMethodNotAllowed))
      ELSE IF Len(parts) < 2 \/ parts[1] = <<>> \/ parts[2] # sInvoke
      THEN Ok(Response(400, sInvalidPath))
      ELSE IF ~Unmarshal(body).ok THEN Ok(Response(400, sInvalidJSON))
      ELSE Err

Request(method, path, body) == [method |-> method, path |-> path, body |-> body]

\* HTTPHandler.invokeTool
ServeInvoke(method, path, body) ==
  /\ ~crashed
  /\ LET rej == rejection(method, path, body)
         request == Request(method, path, body)
     IN  IF rej.ok
         THEN last' = [op |-> "rejected", request |-> request, resp |-> rej.v]
         ELSE LET toolName == Split(TrimPrefix(path, sRoute), "/")[1]
                  arguments == Unmarshal(body).v
              IN  \E o \in callTool(tools, toolName, arguments) :
                    last' = [op |-> "invoke", name |-> toolName, args |-> arguments,
                             out |-> o, request |-> request,
                             resp |-> respond(o, toolName)]
  /\ UNCHANGED <<tools, crashed, lifeVars, reqs, client>>

\* funcs with a pointer and a fixed-size array parameter, and a nil func
EdgeHandlers ==
  { FuncValue("fnEcho", TFunc(<<TString>>, <<TString>>), FALSE),
    FuncValue("fnPtr", TFunc(<<TInt, TPtr(TInt)>>, <<TInt>>), FALSE),
    FuncValue("fnArr", TFunc(<<TArray(TInt, 2)>>, <<TInt>>), FALSE),
    FuncValue("fnNil", TFunc(<<TString>>, <<TString>>), TRUE) }

\* a service whose tagged func field was never assigned
EdgeServices == { OtherValue(TPtr(TStruct("NilSvc"))) }

EdgeBodies ==
  { BadBody,
    Body(JArr(<<>>)),
    Body(JNull),
    Body(JObj(EmptyMap)),
    Body(JObj(MapPut(EmptyMap, kArguments, JStr(vA)))),
    Body(JObj(MapPut(EmptyMap, kArguments, JObj(MapPut(EmptyMap, kParam1, JStr(vHi)))))),
    Body(JObj(MapPut(EmptyMap, kArguments, JObj(MapPut(EmptyMap, kParam1, JArr(<<JNum(2), JNum(4)>>)))))),
    Body(JObj(MapPut(EmptyMap, kArguments, JObj(Map2(kParam1, JNum(2), kParam2, JNum(4)))))) }

\* the names in the paths of the requests: those of the registered tools
\* and Echo, which no tool has
EdgeNames == {tools[i].Name : i \in 1..Len(tools)} \cup {nEcho}

\* the requests: for each name a POST to its invoke path with every body,
\* a GET to it, and a POST to the path without a second segment, with
\* another second segment and with a third segment; and a POST to the
\* invoke path with no name
EdgeRequests ==
  UNION { {Request("POST", sRoute \o n \o <<"/">> \o sInvoke, b) : b \in EdgeBodies}
          \cup { Request("GET", sRoute \o n \o <<"/">> \o sInvoke, Body(JNull)),
                 Request("POST", sRoute \o n, Body(JNull)),
                 Request("POST", sRoute \o n \o <<"/", "r", "u", "n">>, Body(JNull)),
                 Request("POST", sRoute \o n \o <<"/">> \o sInvoke \o <<"/", "x">>, Body(JNull)) }
          : n \in EdgeNames }
  \cup { Request("POST", sRoute \o <<"/">> \o sInvoke, Body(JNull)) }

NextEdge ==
  \/ \E h \in EdgeHandlers : RegisterTool(h)
  \/ \E s \in EdgeServices : RegisterService(s)
  \/ \E r \in EdgeRequests : ServeInvoke(r.method, r.path, r.body)

SpecEdge == Init /\ [][NextEdge]_vars

(***************************************************************************)
(* registry/registry.go: the client of the Nacos registry.  An operation   *)
(* is one action: ensureAuth (with the login request, when it sends one),  *)
(* the request it builds, and the reply.  What the registry answers is the *)
(* environment's choice.  last.sent lists the requests the operation sent. *)
(***************************************************************************)
kAccessToken == <<"a", "c", "c", "e", "s", "s", "T", "o", "k", "e", "n">>

sBearer == <<"B", "e", "a", "r", "e", "r", " ">>

vUser == <<"u">>

vToken1 == <<"t", "1">>

vToken2 == <<"t", "2">>

\* no reply at all: the request failed on the way
NoReply == [kind |-> "neterr"]

\* a reply with its status code and body
Reply(code, body) == [kind |-> "reply", code |-> code, body |-> body]

\* what the registry can answer to a login: nothing, a body that is not
\* JSON, a token, an empty token, or a JSON object with no token in it
\* (its answer to wrong credentials)
LoginReplies ==
  { NoReply,
    Reply(500, BadBody),
    Reply(200, Body(JObj(MapPut(EmptyMap, kAccessToken, JStr(vToken1))))),
    Reply(200, Body(JObj(MapPut(EmptyMap, kAccessToken, JStr(vToken2))))),
    Reply(200, Body(JObj(MapPut(EmptyMap, kAccessToken, JStr(<<>>))))),
    Reply(403, Body(JObj(MapPut(EmptyMap, kMessage, JStr(vX))))) }

\* what the registry can answer to the operation's request
OpReplies == { NoReply, Reply(200, Body(JObj(EmptyMap))), Reply(403, BadBody) }

\* json.Unmarshal(body, &loginResp) for struct{AccessToken string}
UnmarshalLogin(body) ==
  IF ~body.valid THEN Err
  ELSE IF body.doc.t = "null" THEN Ok(<<>>)
  ELSE IF body.doc.t # "obj" THEN Err
  ELSE IF kAccessToken \notin DOMAIN body.doc.m THEN Ok(<<>>)
  ELSE LET a == body.doc.m[kAccessToken]
       IN  IF a.t = "null" THEN Ok(<<>>)
           ELSE IF a.t = "str" THEN Ok(a.s)
           ELSE Err

LoginRequest(c) == [kind |-> "login", username |-> c.username, password |-> c.password,
                    header |-> EmptyMap]

\* Client.login: the status code of the reply is not looked at
login(c, reply) ==
  IF reply.kind = "neterr" THEN [ok |-> FALSE, client |-> c]
  ELSE LET r == UnmarshalLogin(reply.body)
       IN  IF ~r.ok THEN [ok |-> FALSE, client |-> c]
           ELSE [ok |-> TRUE, client |-> [c EXCEPT !.accessToken = r.v]]

\* Client.ensureAuth: sent holds the login request when one was sent
ensureAuth(c, loginReply) ==
  IF c.username = <<>> \/ c.password = <<>> THEN [ok |-> TRUE, client |-> c, sent |-> <<>>]
  ELSE IF c.accessToken # <<>> THEN [ok |-> TRUE, client |-> c, sent |-> <<>>]
  ELSE LET l == login(c, loginReply)
       IN  [ok |-> l.ok, client |-> l.client, sent |-> <<LoginRequest(c)>>]

\* buildRegisterRequest, buildDeregisterRequest and buildListRequest: the
\* header, and the tool specification that Register sends
buildRequest(c, op, ts) ==
  [kind |-> op,
   tools |-> IF op = "Register" THEN Listing(ts) ELSE <<>>,
   header |-> IF c.accessToken # <<>>
              THEN MapPut(EmptyMap, "Authorization", sBearer \o c.accessToken)
              ELSE EmptyMap]

\* parseRegisterResponse, checkResponse and parseListResponse: an error
\* unless the status is 200 and, for Register and List, the body is JSON
parseResponse(op, reply) ==
  IF reply.code # 200 THEN "error"
  ELSE IF op \in {"Register", "List"} /\ ~reply.body.valid THEN "error"
  ELSE "ok"

ClientOps == {"Register", "Deregister", "List"}

\* Client.Register, Client.Deregister and Client.List
ClientCall(op, loginReply, reply) ==
  /\ ~crashed
  /\ LET auth == ensureAuth(client, loginReply)
     IN  /\ client' = auth.client
         /\ IF ~auth.ok
            THEN last' = [op |-> op, status |-> "error", err |-> "authentication failed",
                          sent |-> auth.sent]
            ELSE LET req == buildRequest(auth.client, op, tools)
                 IN  last' = [op |-> op,
                              status |-> IF reply.kind = "neterr" THEN "error"
                                         ELSE parseResponse(op, reply),
                              err |-> "none",
                              sent |-> Append(auth.sent, req)]
  /\ UNCHANGED <<tools, crashed, lifeVars, reqs>>

\* the application's credentials: none, a user name alone, both
InitRegistry ==
  /\ NewServer("sse")
  /\ \E u \in {<<>>, vUser}, p \in {<<>>, vX} : client = NewClient(u, p)

NextRegistry ==
  \/ \E h \in LockHandlers : RegisterTool(h)
  \/ \E op \in ClientOps, l \in LoginReplies, r \in OpReplies : ClientCall(op, l, r)

SpecRegistry == InitRegistry /\ [][NextRegistry]_vars

(***************************************************************************)
(* Vocabulary of the properties.                                           *)
(***************************************************************************)
\* the fields of every struct type that hold a callable
FuncFields ==
  UNION { {StructDefs[n].fields[k] : k \in 1..Len(StructDefs[n].fields)} : n \in DOMAIN StructDefs }

FieldRefs == {f.ref : f \in {g \in FuncFields : g.Type.kind = "func"}}

MethodRefs ==
  UNION { {StructDefs[n].methods[k].ref : k \in 1..Len(StructDefs[n].methods)} : n \in DOMAIN StructDefs }

FieldOf(ref) == CHOOSE f \in {g \in FuncFields : g.Type.kind = "func"} : f.ref = ref

\* the names a tagged field's mcp tag supplies for its parameters
SuppliedNames(ref) == parseMcpTag(FieldOf(ref).mcp).paramNames

\* the last operation was an invocation of a name that some tool has
InvokedFound == last.op = "invoke" /\ \E i \in 1..Len(tools) : tools[i].Name = last.name

\* the func of the tool that invocation resolved: the first one of that name
InvokedHandler ==
  tools[CHOOSE i \in 1..Len(tools) :
          tools[i].Name = last.name /\ \A j \in 1..(i - 1) : tools[j].Name # last.name].Handler

ScalarKinds == {"string", "int", "float64", "bool"}

\* C1: a tagged tool with paramNames n1..nk, invoked with a map keyed by
\* exactly those names (all values convertible), is called with the value
\* under ni as its i-th argument.
C1_TaggedBindingByName ==
  (InvokedFound /\ InvokedHandler.ref \in FieldRefs) =>
    LET h == InvokedHandler
        pn == SuppliedNames(h.ref)
        kv == last.args.kv
    IN  ( /\ Len(pn) = Len(h.type.in)
          /\ Len(pn) > 0
          /\ \A i \in 1..Len(pn) : pn[i] # <<>>
          /\ DOMAIN kv = {pn[i] : i \in 1..Len(pn)}
          /\ \A i \in 1..Len(pn) : convertValue(kv[pn[i]], h.type.in[i]).ok )
        => ( /\ last.out.called
             /\ \A i \in 1..Len(pn) :
                  last.out.args[i] = convertValue(kv[pn[i]], h.type.in[i]).v )

\* C2: in the schema of a tagged tool the i-th parameter's property is
\* named paramNames[i] when that name is supplied and non-empty and
\* param<i> otherwise, it is the i-th entry of required, and every property
\* is listed in required.
C2_TaggedSchemaNames ==
  \A t \in 1..Len(tools) :
    tools[t].Handler.ref \in FieldRefs =>
      LET h == tools[t].Handler
          pn == SuppliedNames(h.ref)
          sch == tools[t].InputSchema
          n == Len(h.type.in)
          expected(i) == IF i <= Len(pn) /\ pn[i] # <<>> THEN pn[i] ELSE sParam \o Itoa(i)
      IN  /\ sch.type = "object"
          /\ \A i \in 1..n : /\ expected(i) \in DOMAIN sch.properties
                             /\ sch.required[i] = expected(i)
          /\ n > 0 => \A p \in DOMAIN sch.properties : \E i \in 1..Len(sch.required) : sch.required[i] = p
          /\ \A p \in DOMAIN sch.properties : \E i \in 1..n : p = expected(i)

\* C2 witness: a registered tagged tool of three parameters whose tag names
\* the first one only, so that an explicit name and two param<i> names occur
C2_Witness ==
  \E t \in 1..Len(tools) :
    /\ tools[t].Handler.ref \in FieldRefs
    /\ Len(tools[t].Handler.type.in) = 3
    /\ SuppliedNames(tools[t].Handler.ref) = << <<"a">>, <<>> >>
    /\ DOMAIN tools[t].InputSchema.properties = { <<"a">>, kParam2, sParam \o <<"3">> }

\* C3: a tool whose callable has N scalar parameters and no explicit
\* paramNames has exactly the N properties param1..paramN, all of them in
\* required, and no required key when N = 0.
C3_PositionalSchema ==
  \A t \in 1..Len(tools) :
    LET h == tools[t].Handler
        sch == tools[t].InputSchema
        n == Len(h.type.in)
    IN  ( /\ \A i \in 1..n : h.type.in[i].kind \in ScalarKinds
          /\ h.ref \in FieldRefs => SuppliedNames(h.ref) = <<>> )
        => ( /\ DOMAIN sch.properties = {sParam \o Itoa(i) : i \in 1..n}
             /\ Cardinality(DOMAIN sch.properties) = n
             /\ IF n = 0 THEN "required" \notin DOMAIN sch
                ELSE /\ "required" \in DOMAIN sch
                     /\ sch.required = [i \in 1..n |-> sParam \o Itoa(i)] )

\* C3 witness: registered tools with two scalar parameters and with none,
\* from a bare callable and from a method
C3_Witness ==
  /\ \E t \in 1..Len(tools) :
       /\ tools[t].Handler.ref \notin FieldRefs \cup MethodRefs
       /\ Len(tools[t].Handler.type.in) = 2
       /\ \A i \in 1..2 : tools[t].Handler.type.in[i].kind \in ScalarKinds
  /\ \E t \in 1..Len(tools) :
       /\ tools[t].Handler.ref \in MethodRefs
       /\ Len(tools[t].Handler.type.in) = 1
       /\ tools[t].Handler.type.in[1].kind \in ScalarKinds

\* C4: invoking a name no tool has ends in the not-found error, calls no
\* handler and does not end the process.
C4_UnknownToolNotFound ==
  (last.op = "invoke" /\ \A i \in 1..Len(tools) : tools[i].Name # last.name) =>
    /\ last.out.status = "error"
    /\ last.out.err = "not_found"
    /\ ~last.out.called
    /\ ~crashed

\* C4 witness: an unknown name invoked with arguments on a non-empty list
C4_Witness ==
  /\ last.op = "invoke"
  /\ Len(tools) > 0
  /\ \A i \in 1..Len(tools) : tools[i].Name # last.name
  /\ DOMAIN last.args.kv # {}
  /\ last.out.err = "not_found"

\* C5: when a bound raw value is present and cannot be converted to its
\* parameter's type, the invocation ends with the conversion error and no
\* call; and a call is made only with every parameter bound and converted.
C5_ConversionErrorAborts ==
  InvokedFound =>
    LET h == InvokedHandler
        o == last.out
    IN  /\ (\E i \in 1..Len(o.bound) :
              o.bound[i].t # "null" /\ ~convertValue(o.bound[i], h.type.in[i]).ok)
           => (o.status = "error" /\ o.err = "convert" /\ ~o.called)
        /\ o.called =>
             /\ Len(o.bound) = Len(h.type.in)
             /\ Len(o.args) = Len(h.type.in)
             /\ \A i \in 1..Len(h.type.in) :
                  /\ convertValue(o.bound[i], h.type.in[i]).ok
                  /\ o.args[i] = convertValue(o.bound[i], h.type.in[i]).v

\* C5 witness: the second parameter fails to convert after the first one
\* was converted, and the invocation ended without a call
C5_Witness ==
  /\ InvokedFound
  /\ last.out.err = "convert"
  /\ last.out.param = 1
  /\ Len(last.out.bound) = 2
  /\ last.out.bound[1].t # "null"
  /\ ~last.out.called

\* C6: a callable with one parameter of struct kind gets the whole argument
\* map; when every present key converts, the invocation succeeds and each
\* exported field holds the converted value under its json alias (else its
\* name), or its zero value when that key is absent.
C6_CompositeSingleParam ==
  (InvokedFound /\ Len(InvokedHandler.type.in) = 1
                /\ InvokedHandler.type.in[1].kind = "struct") =>
    LET fields == StructDefs[InvokedHandler.type.in[1].name].fields
        kv == last.args.kv
        o == last.out
        exported == {k \in 1..Len(fields) : IsExported(fields[k].Name)}
        key(k) == IF fields[k].json # <<>> THEN fields[k].json ELSE fields[k].Name
    IN  (\A k \in exported : key(k) \in DOMAIN kv => convertValue(kv[key(k)], fields[k].Type).ok)
        => /\ o.status = "ok"
           /\ o.called
           /\ Len(o.args) = 1
           /\ o.args[1].k = "struct"
           /\ \A k \in exported :
                o.args[1].f[k] = IF key(k) \in DOMAIN kv
                                 THEN convertValue(kv[key(k)], fields[k].Type).v
                                 ELSE Zero(fields[k].Type)

\* C6 witness: Req invoked with {keyword: "ann"} was called with
\* Keyword = "ann" and Limit = 0
C6_Witness ==
  /\ InvokedFound
  /\ InvokedHandler.type.in = <<TStruct("Req")>>
  /\ DOMAIN last.args.kv = {kKeyword}
  /\ last.out.called
  /\ last.out.args[1].f[1] = VString(vAnn)
  /\ last.out.args[1].f[2] = VInt(0)

\* C7: a non-integral JSON number bound to an int parameter ends the
\* invocation with a conversion error and no call; an integral number n is
\* passed as the integer n.
C7_NonIntegralIsError ==
  InvokedFound =>
    LET h == InvokedHandler
        o == last.out
    IN  \A i \in 1..Len(o.bound) :
          (h.type.in[i].kind = "int" /\ o.bound[i].t = "num") =>
            IF o.bound[i].n2 % 2 # 0
            THEN o.status = "error" /\ o.err = "convert" /\ ~o.called
            ELSE o.called => o.args[i] = VInt(o.bound[i].n2 \div 2)

\* C8: RegisterTool with a value that is not a func (nil included) returns
\* an error, leaves the tool list as it was and does not panic.
C8_NonCallableRejected ==
  [][\A h \in HandlerInputs :
       (h.iface # "func" /\ RegisterTool(h)) =>
         (tools' = tools /\ last'.status = "error" /\ ~crashed')]_vars

\* C9: after RegisterService, a func field of the struct is among the tools
\* added if and only if `tool` is one of the ';'-separated segments of its
\* mcp tag (when any field is).
C9_ToolTokenRequired ==
  (last.op = "RegisterService" /\ last.status = "ok") =>
    LET st == IF last.in.type.kind = "ptr" THEN last.in.type.elem ELSE last.in.type
        fields == StructDefs[st.name].fields
        segments(tag) == Split(tag, ";")
        hasToken(tag) == \E j \in 1..Len(segments(tag)) : TrimSpace(segments(tag)[j]) = sTool
        added(f) == \E i \in 1..Len(last.added) : last.added[i].Handler.ref = f.ref
    IN  \A k \in 1..Len(fields) :
          fields[k].Type.kind = "func" => (added(fields[k]) <=> hasToken(fields[k].mcp))

\* C10: one RegisterService call never adds both tools made from tagged
\* fields and tools made from methods, and adds no method tool when a field
\* qualifies as a tagged tool.
C10_FallbackAllOrNothing ==
  (last.op = "RegisterService" /\ last.status = "ok") =>
    LET st == IF last.in.type.kind = "ptr" THEN last.in.type.elem ELSE last.in.type
        fields == StructDefs[st.name].fields
        fromField == {i \in 1..Len(last.added) : last.added[i].Handler.ref \in FieldRefs}
        fromMethod == {i \in 1..Len(last.added) : last.added[i].Handler.ref \in MethodRefs}
    IN  /\ fromField = {} \/ fromMethod = {}
        /\ (\E k \in 1..Len(fields) : isToolField(fields[k])) => fromMethod = {}

\* C10 witness: a struct with tagged fields and with exported value methods
\* was registered, and only the fields became tools
C10_Witness ==
  /\ last.op = "RegisterService"
  /\ last.status = "ok"
  /\ last.in.type.kind = "struct"
  /\ Len(MethodSet(last.in.type)) > 0
  /\ Len(last.added) > 0
  /\ \A i \in 1..Len(last.added) : last.added[i].Handler.ref \in FieldRefs

\* the exported methods a caller can invoke on the object passed to
\* RegisterService: every receiver kind through a pointer, the value
\* receivers through a struct value
ExportedMethods(obj) ==
  LET st == IF obj.type.kind = "ptr" THEN obj.type.elem ELSE obj.type
  IN  SelectSeq(StructDefs[st.name].methods,
                LAMBDA m : IsExported(m.Name) /\ (obj.type.kind = "ptr" \/ m.recv = "value"))

\* C11: RegisterService of a struct (or pointer to struct) that has no
\* tagged callable field adds exactly one tool per exported method of the
\* object, in order, each named by the lower-cased method name; pointer
\* receivers of an object passed by pointer included.
C11_FallbackOnePerMethod ==
  ( /\ last.op = "RegisterService"
    /\ last.in.iface # "nil"
    /\ (IF last.in.type.kind = "ptr" THEN last.in.type.elem ELSE last.in.type).kind = "struct" ) =>
    LET st == IF last.in.type.kind = "ptr" THEN last.in.type.elem ELSE last.in.type
        fields == StructDefs[st.name].fields
        ms == ExportedMethods(last.in)
    IN  (\A k \in 1..Len(fields) : ~isToolField(fields[k])) =>
          /\ last.status = "ok"
          /\ Len(last.added) = Len(ms)
          /\ \A i \in 1..Len(ms) : last.added[i].Name = ToLower(ms[i].Name)

\* C13: no two descriptors in the tool list have the same name.
C13_NamesUnique ==
  \A i, j \in 1..Len(tools) : i # j => tools[i].Name # tools[j].Name

\* C14: an invocation is resolved by exact comparison of names: when no
\* tool has exactly the requested name the outcome is not-found and no func
\* is called; otherwise every outcome is one of invoking the handler of the
\* first tool, in registration order, that has the name.
C14_FirstExactMatch ==
  last.op = "invoke" =>
    LET hits == {i \in 1..Len(tools) : tools[i].Name = last.name}
    IN  IF hits = {}
        THEN last.out.err = "not_found" /\ ~last.out.called
        ELSE LET first == CHOOSE i \in hits : \A j \in hits : i <= j
             IN  /\ last.out \in invokeHandler(tools[first].Handler, last.args)
                 /\ last.out.ref = tools[first].Handler.ref

\* C14 witness: two tools of one name hold different funcs, and the
\* invocation of that name called the func registered first
C14_Witness ==
  /\ last.op = "invoke"
  /\ last.out.called
  /\ \E i, j \in 1..Len(tools) :
       /\ i < j
       /\ tools[i].Name = last.name
       /\ tools[j].Name = last.name
       /\ tools[i].Handler.ref # tools[j].Handler.ref
       /\ \A k \in 1..(i - 1) : tools[k].Name # last.name
       /\ last.out.ref = tools[i].Handler.ref

\* C15: an invocation that called the func succeeds whatever the func
\* returned: the result is the first returned value, a non-nil error in a
\* later position included, and nil when the func returns nothing.
C15_FirstResultOnly ==
  (InvokedFound /\ last.out.called) =>
    LET r == last.out.result.returned
    IN  /\ last.out.status = "ok"
        /\ last.out.err = "none"
        /\ Len(r) = Len(InvokedHandler.type.out)
        /\ last.out.result.value = IF Len(r) = 0 THEN "nil" ELSE r[1]

\* C15 witness: a func returned (value, non-nil error) and the invocation
\* succeeded with the value
C15_Witness ==
  /\ InvokedFound
  /\ last.out.called
  /\ last.out.result.returned = <<"value", "err">>
  /\ last.out.status = "ok"
  /\ last.out.result.value = "value"

\* C15 witness of the empty result: a func that returns nothing was called
C15_WitnessEmpty ==
  /\ InvokedFound
  /\ last.out.called
  /\ InvokedHandler.type.out = <<>>
  /\ last.out.status = "ok"
  /\ last.out.result.value = "nil"

\* a schema node and every node below it: a node with properties has type
\* object and lists in required only keys of its properties, and required
\* occurs on no other node
RECURSIVE SchemaWellFormed(_)
SchemaWellFormed(s) ==
  /\ "required" \in DOMAIN s => "properties" \in DOMAIN s
  /\ "properties" \in DOMAIN s =>
       /\ s.type = "object"
       /\ "required" \in DOMAIN s =>
            \A i \in 1..Len(s.required) : s.required[i] \in DOMAIN s.properties
       /\ \A p \in DOMAIN s.properties : SchemaWellFormed(s.properties[p])
  /\ "items" \in DOMAIN s => SchemaWellFormed(s.items)

\* C18: the input schema of every registered tool is an object with
\* properties, and it and every composite nested in it list in required
\* only names that are keys of its own properties.
C18_SchemasWellFormed ==
  \A t \in 1..Len(tools) :
    LET s == tools[t].InputSchema
    IN  /\ s.type = "object"
        /\ "properties" \in DOMAIN s
        /\ SchemaWellFormed(s)

\* C18 witness: a tool has a parameter of struct type whose schema is
\* nested in the tool's schema and has a non-empty required list
C18_Witness ==
  \E t \in 1..Len(tools) :
    LET s == tools[t].InputSchema
    IN  /\ "required" \in DOMAIN s
        /\ \E p \in DOMAIN s.properties :
             /\ "properties" \in DOMAIN s.properties[p]
             /\ "required" \in DOMAIN s.properties[p]
             /\ s.properties[p].required = <<kKeyword>>

\* the name the alias-or-identifier rule gives a field: the serialization
\* alias when the field has one, the identifier otherwise
AliasOrIdentifier(field) ==
  IF field.json # <<>> /\ field.json # sDash /\ Split(field.json, ",")[1] # <<>>
  THEN Split(field.json, ",")[1]
  ELSE field.Name

\* C19: for a tool called with a single struct parameter, every exported
\* field with alias `-` has no property in the struct's schema and keeps its
\* zero value, and every other exported field has a property under its
\* alias-or-identifier name and is filled from exactly that key.
C19_SameFieldNameRule ==
  ( /\ InvokedFound
    /\ last.out.called
    /\ Len(InvokedHandler.type.in) = 1
    /\ InvokedHandler.type.in[1].kind = "struct" ) =>
    LET t == InvokedHandler.type.in[1]
        fields == StructDefs[t.name].fields
        sch == typeToJSONSchema(t)
        kv == last.args.kv
        v == last.out.args[1]
    IN  \A k \in 1..Len(fields) :
          IsExported(fields[k].Name) =>
            IF fields[k].json = sDash
            THEN /\ fields[k].Name \notin DOMAIN sch.properties
                 /\ sDash \notin DOMAIN sch.properties
                 /\ v.f[k] = Zero(fields[k].Type)
            ELSE LET p == AliasOrIdentifier(fields[k])
                 IN  /\ p \in DOMAIN sch.properties
                     /\ v.f[k] = IF p \in DOMAIN kv
                                 THEN convertValue(kv[p], fields[k].Type).v
                                 ELSE Zero(fields[k].Type)

\* C19, coercion only: a field with alias `-` is not filled from the
\* argument map.
C19_DashNotFilled ==
  ( /\ InvokedFound
    /\ last.out.called
    /\ Len(InvokedHandler.type.in) = 1
    /\ InvokedHandler.type.in[1].kind = "struct" ) =>
    LET fields == StructDefs[InvokedHandler.type.in[1].name].fields
    IN  \A k \in 1..Len(fields) :
          (IsExported(fields[k].Name) /\ fields[k].json = sDash) =>
            last.out.args[1].f[k] = Zero(fields[k].Type)

\* the kinds typeToJSONSchema has a case for
MappedKinds == {"string", "int", "float64", "bool", "slice", "struct", "ptr"}

\* C20: registering a func maps every parameter type to a schema node and
\* returns: RegisterTool of a func ends ok with one property for each
\* parameter it maps, self-referential parameter types included, and a
\* parameter of an unsupported kind gets {type: object, description:
\* "Complex parameter"}.
C20_MapTypeTotal ==
  (last.op = "RegisterTool" /\ last.in.iface = "func") =>
    /\ last.status = "ok"
    /\ LET in == last.in.type.in
           sch == last.added[1].InputSchema
           skip == IF Len(in) > 0 /\ in[1].kind \in {"ptr", "struct"} THEN 1 ELSE 0
       IN  \A i \in (skip + 1)..Len(in) :
             /\ ParamN(i - skip) \in DOMAIN sch.properties
             /\ in[i].kind \notin MappedKinds =>
                  sch.properties[ParamN(i - skip)] = [type |-> "object", description |-> dComplex]

\* C12: every step of RegisterTool, RegisterService, Start, Stop, list and
\* invoke either leaves the tool list as it is or is a successful
\* registration that appends its descriptors at the end, in order; list
\* returns the descriptors of the whole list in that order and changes
\* nothing of the server.
C12_AppendOnlyOrdered ==
  [][ /\ \/ tools' = tools
         \/ /\ last'.op \in {"RegisterTool", "RegisterService"}
            /\ last'.status = "ok"
            /\ Len(last'.added) > 0
            /\ tools' = tools \o last'.added
      /\ ListTools =>
           /\ last'.out = Listing(tools)
           /\ UNCHANGED <<tools, crashed, lifeVars, reqs>> ]_vars

\* C12 witness: after two registrations, a Start and a Stop, list returned
\* the four descriptors in registration order
C12_Witness ==
  /\ last.op = "list"
  /\ last.out = Listing(tools)
  /\ Len(tools) = 4
  /\ tools[1].Handler.ref = "fnGreet"
  /\ tools[2].Handler.ref = "MySvc.GetTime"
  /\ tools[4].Handler.ref = "MySvc.Echo"
  /\ httpServer # 0
  /\ ~running

\* C17: while the server is running no step changes the tool list.
C17_NoWriteWhileRunning ==
  [][running => tools' = tools]_vars

\* a request is inside a tool func that never returns
Blocked(r) == reqs[r].pc = "calling" /\ reqs[r].blocks

\* C16: a request holds the read lock only between RLock and RUnlock, never
\* while its tool func runs, and every request that has arrived gets its
\* answer or is inside its own blocking func, whatever the other requests
\* are blocked in.
C16_BlockingHandlerBlocksItselfOnly ==
  /\ [](\A r \in Requests :
          reqs[r].pc \in {"unlocked", "calling", "done"} => ~reqs[r].holds)
  /\ \A r \in Requests :
       (reqs[r].pc = "arrived") ~> (reqs[r].pc = "done" \/ Blocked(r))

\* C16 witness: one request is blocked forever in its tool func while
\* another one, which read the tool list under the lock, has been answered
C16_Witness ==
  \E r, q \in Requests :
    /\ r # q
    /\ Blocked(r)
    /\ reqs[q].pc = "done"
    /\ reqs[q].kind = "invoke"
    /\ reqs[q].out.called

\* C21: a registered func without parameters is listed with empty
\* properties and without required, and every invocation of it, whatever
\* the argument map (absent, empty or with keys), calls it with no
\* arguments and succeeds.
C21_ZeroArgCallable ==
  /\ \A t \in 1..Len(tools) :
       Len(tools[t].Handler.type.in) = 0 =>
         /\ tools[t].InputSchema.type = "object"
         /\ tools[t].InputSchema.properties = EmptyMap
         /\ "required" \notin DOMAIN tools[t].InputSchema
  /\ (InvokedFound /\ Len(InvokedHandler.type.in) = 0) =>
       /\ last.out.status = "ok"
       /\ last.out.called
       /\ last.out.args = <<>>
  /\ (last.op = "list") =>
       \A i \in 1..Len(tools) :
         Len(tools[i].Handler.type.in) = 0 =>
           /\ last.out[i].inputSchema.properties = EmptyMap
           /\ "required" \notin DOMAIN last.out[i].inputSchema

\* C21 witness: a func without parameters was invoked with an argument map
\* that holds keys, and the call succeeded
C21_Witness ==
  /\ InvokedFound
  /\ Len(InvokedHandler.type.in) = 0
  /\ InvokedHandler.ref = "fnTime"
  /\ DOMAIN last.args.kv # {}
  /\ last.out.status = "ok"
  /\ last.out.called

\* a JSON value conforms to a schema the type mapper emitted: a number for
\* "number", a whole number for "integer", a string, a boolean, an array of
\* conforming items, an object with the required members whose members
\* conform to their properties; the fallback schema, an object with no
\* properties key, is not a specific kind
RECURSIVE Conforms(_, _)
Conforms(value, schema) ==
  CASE schema.type = "string" -> value.t = "str"
    [] schema.type = "integer" -> value.t = "num" /\ value.n2 % 2 = 0
    [] schema.type = "number" -> value.t = "num"
    [] schema.type = "boolean" -> value.t = "bool"
    [] schema.type = "array" ->
         /\ value.t = "arr"
         /\ \A k \in 1..Len(value.a) : Conforms(value.a[k], schema.items)
    [] schema.type = "object" ->
         /\ "properties" \in DOMAIN schema
         /\ value.t = "obj"
         /\ "required" \in DOMAIN schema =>
              \A k \in 1..Len(schema.required) : schema.required[k] \in DOMAIN value.m
         /\ \A key \in DOMAIN value.m \cap DOMAIN schema.properties :
              Conforms(value.m[key], schema.properties[key])

\* C22: when invocation binds to a parameter a JSON value that conforms to
\* the schema the type mapper emits for the parameter's type, the coercion
\* of that parameter does not fail.
C22_ConformingValueCoerced ==
  InvokedFound =>
    \A k \in 1..Len(last.out.bound) :
      Conforms(last.out.bound[k], typeToJSONSchema(InvokedHandler.type.in[k])) =>
        ~(last.out.err = "convert" /\ last.out.param = k - 1)

\* C22 for the parameter kinds other than pointer and fixed-size array
C22_ScalarSliceStructCoerced ==
  InvokedFound =>
    \A k \in 1..Len(last.out.bound) :
      ( /\ InvokedHandler.type.in[k].kind \notin {"ptr", "array"}
        /\ Conforms(last.out.bound[k], typeToJSONSchema(InvokedHandler.type.in[k])) ) =>
        ~(last.out.err = "convert" /\ last.out.param = k - 1)

\* what a caller reads off a response alone: the status code, and for a 500
\* the beginning of the text
Classify(resp) ==
  IF resp.code = 200 THEN "success"
  ELSE IF resp.code = 500 /\ HasPrefix(resp.body, sExecFailed \o sToolQuote) THEN "not_found"
  ELSE IF resp.code = 500 /\ HasPrefix(resp.body, sExecFailed \o sConvertParameter) THEN "convert"
  ELSE "other"

\* C23: the response to an invoke request tells the caller which of the
\* three happened: the tool was not found, an argument could not be
\* converted, or the call succeeded.
C23_FailuresDistinguishable ==
  (last.op = "invoke" /\ "resp" \in DOMAIN last) =>
    /\ last.out.err = "not_found" => Classify(last.resp) = "not_found"
    /\ last.out.err = "convert" => Classify(last.resp) = "convert"
    /\ last.out.status = "ok" => Classify(last.resp) = "success"

\* C23 witness: a conversion failure answered with its own text, to a
\* request whose tool exists
C23_Witness ==
  /\ InvokedFound
  /\ "resp" \in DOMAIN last
  /\ last.out.err = "convert"
  /\ last.resp = Response(500, sExecFailed \o sConvertParameter \o <<"0">> \o sFailed)

\* C23 witness: a request for a name no tool has, answered with the name
C23_WitnessNotFound ==
  /\ last.op = "invoke"
  /\ "resp" \in DOMAIN last
  /\ last.out.err = "not_found"
  /\ last.resp = Response(500, sExecFailed \o sToolQuote \o nEcho \o sNotFound)

\* C24: Start on a running server returns an error and changes neither the
\* running flag nor the HTTP server; Stop on a server that is not running
\* returns nil and changes nothing; a Stop whose shutdown fails returns an
\* error and leaves running true; and running becomes false only in a Stop
\* that returns nil.
C24_LifecycleGuards ==
  [][ /\ (Start /\ running) =>
           /\ last'.status = "error"
           /\ UNCHANGED <<running, httpServer, servers>>
      /\ (Stop /\ ~running) =>
           /\ last'.status = "ok"
           /\ UNCHANGED <<tools, running, protocol, httpServer, servers, client>>
      /\ (Stop /\ last'.status = "error") => (running /\ running')
      /\ (running /\ ~running') => (Stop /\ last'.status = "ok")
    ]_vars

\* C24 witness: a Stop whose shutdown failed has returned its error, the
\* server it could not shut down is still the current one and running is
\* still true
C24_Witness ==
  /\ last.op = "Stop"
  /\ last.status = "error"
  /\ running
  /\ httpServer # 0
  /\ servers[httpServer].inner = "shutdown"

\* C24 witness: a second Start was refused on a running server
C24_WitnessStart ==
  /\ last.op = "Start"
  /\ last.status = "error"
  /\ running
  /\ Len(servers) = 1

\* the path is /mcp/tools/ then a non-empty name with no slash in it, then
\* the segment invoke, at the end of the path or before another slash
PathNamesInvoke(path) ==
  /\ HasPrefix(path, sRoute)
  /\ LET rest == TrimPrefix(path, sRoute)
         seg == <<"/">> \o sInvoke
     IN  \E k \in 1..Len(rest) :
           /\ \A j \in 1..k : rest[j] # "/"
           /\ Len(rest) >= k + Len(seg)
           /\ SubSeq(rest, k + 1, k + Len(seg)) = seg
           /\ (Len(rest) = k + Len(seg) \/ rest[k + Len(seg) + 1] = "/")

\* C25: a handler is called only for a POST whose path names a tool and
\* invoke and whose body is JSON; every request that is not such a one is
\* answered 405 or 400 and never reaches callTool.
C25_InvokeEndpointGuards ==
  "request" \in DOMAIN last =>
    LET r == last.request
        wellFormed == r.method = "POST" /\ PathNamesInvoke(r.path) /\ r.body.valid
    IN  /\ (last.op = "invoke" /\ last.out.called) => wellFormed
        /\ ~wellFormed => (last.op = "rejected" /\ last.resp.code \in {400, 405})
        /\ last.op = "rejected" => last.resp.code \in {400, 405}

\* C25 witness: a POST to the invoke path of a registered tool with a JSON
\* body reached the tool's func
C25_Witness ==
  /\ InvokedFound
  /\ "request" \in DOMAIN last
  /\ last.request.method = "POST"
  /\ last.out.called
  /\ last.resp.code = 200

\* C25 witness: a GET to the invoke path of a registered tool was answered
\* 405
C25_WitnessRejected ==
  /\ last.op = "rejected"
  /\ last.request.method = "GET"
  /\ \E i \in 1..Len(tools) :
       last.request.path = sRoute \o tools[i].Name \o <<"/">> \o sInvoke
  /\ last.resp = Response(405, sMethodNotAllowed)

\* the tool was registered from a bare callable, not from a field or method
IsBare(tool) == tool.Handler.ref \notin (FieldRefs \cup MethodRefs)

\* the schema has exactly the properties param1..paramN for the N
\* parameters invocation binds, each the schema of that parameter's type
PositionsAgree(tool) ==
  LET in == tool.Handler.type.in
  IN  /\ DOMAIN tool.InputSchema.properties = {ParamN(i) : i \in 1..Len(in)}
      /\ \A i \in 1..Len(in) :
           tool.InputSchema.properties[ParamN(i)] = typeToJSONSchema(in[i])

\* C26: for every tool registered from a bare callable the schema has one
\* property param<i> for each parameter i that invocation binds, describing
\* that parameter's type, and a successful call has bound as many values
\* as the schema has properties.
C26_PositionsAgree ==
  /\ \A t \in 1..Len(tools) : IsBare(tools[t]) => PositionsAgree(tools[t])
  /\ \A t \in 1..Len(tools) :
       ( /\ IsBare(tools[t])
         /\ InvokedFound
         /\ InvokedHandler = tools[t].Handler
         /\ tools[t].Name = last.name
         /\ last.out.called ) =>
         Len(last.out.args) = Cardinality(DOMAIN tools[t].InputSchema.properties)

\* C26 for bare callables whose first parameter is neither a struct nor a
\* pointer
C26_AgreeWithoutLeadingComposite ==
  \A t \in 1..Len(tools) :
    ( /\ IsBare(tools[t])
      /\ Len(tools[t].Handler.type.in) > 0
      /\ tools[t].Handler.type.in[1].kind \notin {"struct", "ptr"} ) =>
      PositionsAgree(tools[t])

\* C27: the values a tool's func is called with are determined by the tool
\* and the argument map: all the outcomes invocation can have for the map
\* of the last request bind the same values.
C27_BindingDeterministic ==
  InvokedFound =>
    \A o1, o2 \in callTool(tools, last.name, last.args) :
      o1.bound = o2.bound /\ o1.args = o2.args

\* C27 for maps of at most one key
C27_OneKeyDeterministic ==
  (InvokedFound /\ Cardinality(DOMAIN last.args.kv) <= 1) =>
    \A o1, o2 \in callTool(tools, last.name, last.args) :
      o1.bound = o2.bound /\ o1.args = o2.args

\* C28: when running is false after a Start that created an HTTP server
\* (so a Stop has returned nil since), that server is not listening; as an
\* invariant this also says that it does not start listening later.
C28_StoppedNotListening ==
  (~running /\ httpServer # 0) => servers[httpServer].inner # "listening"

\* C28 for a Stop that found the wrapped server assigned: a server that
\* Shutdown was called on never listens again
C28_ShutdownStaysDown ==
  [][\A i \in 1..Len(servers) :
       servers[i].inner = "shutdown" => servers'[i].inner = "shutdown"]_vars

\* C29: every registered tool holds a non-nil func, and an invocation that
\* finds its tool does not end in the call of a nil func.
C29_HandlersNotNil ==
  /\ \A t \in 1..Len(tools) : ~tools[t].Handler.isNil
  /\ InvokedFound => last.out.status # "panic"

\* C29, second half alone: no request panics in the call of a nil func
C29_NoNilCall ==
  InvokedFound => ~(last.out.status = "panic" /\ last.out.err = "nil_func")

\* C29 for the funcs that are not nil: they are called once their
\* arguments are converted
C29_NonNilCalled ==
  (InvokedFound /\ ~InvokedHandler.isNil /\ last.out.status # "error") => last.out.called

\* the client has a user name and a password
Configured == client.username # <<>> /\ client.password # <<>>

\* the request carries an Authorization header with a non-empty bearer token
CarriesToken(req) ==
  /\ "Authorization" \in DOMAIN req.header
  /\ HasPrefix(req.header["Authorization"], sBearer)
  /\ Len(req.header["Authorization"]) > Len(sBearer)

\* C30: with a user name and a password configured, every Register,
\* Deregister and List request the client sent carries an Authorization
\* bearer token.
C30_RequestsCarryToken ==
  (last.op \in ClientOps /\ Configured) =>
    \A k \in 1..Len(last.sent) :
      last.sent[k].kind \in ClientOps => CarriesToken(last.sent[k])

\* C30, the part about the cache: an operation of a configured client
\* that holds no token sends the login first, and one that holds a token
\* sends no login, keeps the token and sends it
C30_LoginOnceThenReuse ==
  [][ ((\E op \in ClientOps, l \in LoginReplies, r \in OpReplies : ClientCall(op, l, r))
       /\ Configured) =>
        IF client.accessToken = <<>>
        THEN last'.sent[1] = LoginRequest(client)
        ELSE /\ client' = client
             /\ Len(last'.sent) = 1
             /\ last'.sent[1].header["Authorization"] = sBearer \o client.accessToken
    ]_vars

====
